---- MODULE Spec2Model ----
(***************************************************************************)
(* Model of the expense tracker's ledger (the SQLite table `expenses`)     *)
(* and of the query and analytics operations of                            *)
(* services/expenses_service.py and services/analytics_service.py.         *)
(*                                                                         *)
(* Representation                                                          *)
(*   text     a sequence of ASCII codes; SQLite compares TEXT bytewise     *)
(*            (BINARY collation), which is the lexicographic order here    *)
(*   date     the ISO day "YYYY-MM-DD" as the integer YYYYMMDD; for        *)
(*            four-digit years the string order is the integer order;      *)
(*            the empty text "" is 0, which is below every day as "" is    *)
(*            below every string                                           *)
(*   amount   a REAL, kept as an exact integer number of thousandths       *)
(*            (12.344 is 12344); binary floating-point error is not        *)
(*            modelled                                                     *)
(*   money    a response field after round(x, 2): an integer number of     *)
(*            hundredths, rounded half to even                             *)
(*   optional None is <<>> and a supplied value v is <<v>>                 *)
(***************************************************************************)
EXTENDS Integers, Sequences, FiniteSets, TLC

VARIABLES ledger, nextId, resp

vars == <<ledger, nextId, resp>>

(***************************************************************************)
(* Bounds                                                                  *)
(***************************************************************************)
MaxId == 3

MaxPage == 3

(***************************************************************************)
(* Optional arguments and Python truthiness                                *)
(***************************************************************************)
None == <<>>

Some(v) == <<v>>

Val(o) == o[1]

\* `if x:` on a number, which is also false for 0
TruthyNumber(o) == o # None /\ Val(o) # 0

\* `if x is not None`
IsNotNone(o) == o # None

\* `if s:` for an Optional[str] argument: None and "" are both false
TruthyText(o) == o # None /\ Val(o) # <<>>

\* `if d:` for an Optional[str] date argument; a date token is never ""
TruthyDate(o) == o # None

(***************************************************************************)
(* Text                                                                    *)
(***************************************************************************)
\* bytewise comparison of two TEXT values (memcmp, then length)
TextLess(a, b) ==
    \E k \in 1..Len(b) :
        /\ k <= Len(a) + 1
        /\ \A j \in 1..(k - 1) : a[j] = b[j]
        /\ (k = Len(a) + 1 \/ a[k] < b[k])

\* SQLite folds only the 26 ASCII upper-case letters in LIKE
Lower(c) == IF c \in 65..90 THEN c + 32 ELSE c

\* x LIKE pattern: % (37) matches any run, _ (95) any one character,
\* every other character matches itself ignoring ASCII case
RECURSIVE Like(_, _)
Like(pattern, x) ==
    IF pattern = <<>> THEN x = <<>>
    ELSE IF Head(pattern) = 37
         THEN \/ Like(Tail(pattern), x)
              \/ (x # <<>> /\ Like(pattern, Tail(x)))
    ELSE IF x = <<>> THEN FALSE
    ELSE IF Head(pattern) = 95 THEN Like(Tail(pattern), Tail(x))
    ELSE Lower(Head(pattern)) = Lower(Head(x)) /\ Like(Tail(pattern), Tail(x))

\* f"%{note_contains}%"
WrapPercent(s) == <<37>> \o s \o <<37>>

\* str.split(sep) for a one-character separator: the parts between the
\* separators, in order
RECURSIVE Split(_, _)
Split(s, sep) ==
    IF \A i \in DOMAIN s : s[i] # sep THEN <<s>>
    ELSE LET i == CHOOSE k \in DOMAIN s :
                      s[k] = sep /\ \A j \in 1..(k - 1) : s[j] # sep
         IN  <<SubSeq(s, 1, i - 1)>> \o Split(SubSeq(s, i + 1, Len(s)), sep)

\* str.strip() for the blank (32)
RECURSIVE Strip(_)
Strip(s) ==
    IF s = <<>> THEN s
    ELSE IF Head(s) = 32 THEN Strip(Tail(s))
    ELSE IF s[Len(s)] = 32 THEN Strip(SubSeq(s, 1, Len(s) - 1))
    ELSE s

IsDigits(s) == s # <<>> /\ \A i \in DOMAIN s : s[i] \in 48..57

\* the number a string of decimal digits stands for
RECURSIVE DigitsValue(_)
DigitsValue(s) ==
    IF s = <<>> THEN 0
    ELSE 10 * DigitsValue(SubSeq(s, 1, Len(s) - 1)) + (s[Len(s)] - 48)

\* int(s): the integer, or None where int raises ValueError; blanks around
\* the number and a leading "+" are accepted (underscores between digits
\* and a leading "-" are not modelled: no part of a split on "-" has one)
ToInt(s) ==
    LET t == Strip(s)
        u == IF t # <<>> /\ Head(t) = 43 THEN Tail(t) ELSE t
    IN  IF IsDigits(u) THEN Some(DigitsValue(u)) ELSE None

\* the decimal digits of n >= 0
RECURSIVE Digits(_)
Digits(n) ==
    IF n < 10 THEN <<48 + n>> ELSE Digits(n \div 10) \o <<48 + (n % 10)>>

\* f"{n:0{width}d}" for n >= 0
Pad(n, width) ==
    LET d == Digits(n)
    IN  [i \in 1..(width - Len(d)) |-> 48] \o d

(***************************************************************************)
(* Numbers                                                                 *)
(***************************************************************************)
\* n / d rounded to the nearest integer, ties to even (d > 0)
RoundDiv(n, d) ==
    LET q == n \div d
        r == n % d
    IN  IF 2 * r < d THEN q
        ELSE IF 2 * r > d THEN q + 1
        ELSE IF q % 2 = 0 THEN q ELSE q + 1

\* an amount cut off after 2 decimals
Round2Truncated(x) == x \div 10

\* round(x, 2) of an amount in thousandths, in hundredths
Round2(x) == RoundDiv(x, 10)

(***************************************************************************)
(* Calendar                                                                *)
(***************************************************************************)
\* the date column holding the empty text
EmptyDate == 0

YearOf(d) == d \div 10000

MonthOf(d) == (d \div 100) % 100

DayOf(d) == d % 100

\* a leap year rule without the century exception
IsLeapEveryFourth(y) == y % 4 = 0

IsLeap(y) == (y % 4 = 0 /\ y % 100 # 0) \/ y % 400 = 0

\* calendar.monthrange(year, month)[1]
DaysInMonth(y, m) ==
    IF m = 2 THEN (IF IsLeap(y) THEN 29 ELSE 28)
    ELSE IF m \in {4, 6, 9, 11} THEN 30 ELSE 31

RECURSIVE DaysBeforeMonth(_, _)
DaysBeforeMonth(y, m) ==
    IF m <= 1 THEN 0 ELSE DaysBeforeMonth(y, m - 1) + DaysInMonth(y, m - 1)

\* 0-based day of the year (tm_yday)
YDay(d) == DaysBeforeMonth(YearOf(d), MonthOf(d)) + DayOf(d) - 1

\* proleptic Gregorian ordinal, 0001-01-01 is day 1
Ordinal(d) ==
    LET y == YearOf(d) - 1
    IN  365 * y + (y \div 4) - (y \div 100) + (y \div 400) + YDay(d) + 1

\* day of the week, Monday = 0
WeekDay(d) == (Ordinal(d) + 6) % 7

\* strftime('%W', date): week of the year, weeks start on Monday and the
\* days before the first Monday are week 00
WeekOfYear(d) == (YDay(d) + 7 - WeekDay(d)) \div 7

\* strftime('%Y-W%W', date) as the integer YYYYWW
WeekKey(d) == YearOf(d) * 100 + WeekOfYear(d)

\* strftime('%Y-%m', date) as the integer YYYYMM
MonthKey(d) == d \div 100

\* month_start_end("YYYY-MM") for the month token YYYYMM
month_start_end(ym) ==
    LET year == ym \div 100
        month == ym % 100
    IN  <<year * 10000 + month * 100 + 1,
          year * 10000 + month * 100 + DaysInMonth(year, month)>>

\* strftime("%Y-%m-%d") of a day, and f"{year:04d}-{month:02d}-{day:02d}"
FormatYmd(d) ==
    Pad(YearOf(d), 4) \o <<45>> \o Pad(MonthOf(d), 2) \o <<45>>
        \o Pad(DayOf(d), 2)

\* _parse_ymd: datetime.strptime(s, "%Y-%m-%d"), the day or None where it
\* raises ValueError.  The format matches four digits, "-", a month 1..12
\* written with one or two digits, "-", a day 1..31 written with one or two
\* digits or with a blank and a digit, and nothing after it; the day must
\* exist in the month and the year must not be 0.
parse_ymd(s) ==
    LET parts == Split(s, 45)
        ytext == parts[1]
        mtext == parts[2]
        dtext == IF parts[3] # <<>> /\ Head(parts[3]) = 32 /\ Len(parts[3]) = 2
                 THEN Tail(parts[3]) ELSE parts[3]
        year == DigitsValue(ytext)
        month == DigitsValue(mtext)
        day == DigitsValue(dtext)
    IN  IF Len(parts) # 3 THEN None
        ELSE IF ~(IsDigits(ytext) /\ Len(ytext) = 4) THEN None
        ELSE IF ~(IsDigits(mtext) /\ Len(mtext) <= 2 /\ month \in 1..12)
             THEN None
        ELSE IF ~(IsDigits(dtext) /\ Len(dtext) <= 2 /\ day \in 1..31)
             THEN None
        ELSE IF year = 0 \/ day > DaysInMonth(year, month) THEN None
        ELSE Some(year * 10000 + month * 100 + day)

\* a normalization that takes a missing start from today's month
normalize_date_range_today_month(start_date, end_date, today) ==
    LET end == IF end_date = None THEN FormatYmd(today) ELSE Val(end_date)
        end_dt == parse_ymd(end)
    IN  IF end_dt = None THEN None
        ELSE IF start_date = None
             THEN Some([start_date |-> FormatYmd((today \div 100) * 100 + 1),
                        end_date |-> end])
        ELSE IF parse_ymd(Val(start_date)) = None THEN None
        ELSE Some([start_date |-> Val(start_date), end_date |-> end])

\* normalize_date_range(start_date, end_date) with datetime.now() = today:
\* the DateRange, or None where it raises ValueError
normalize_date_range(start_date, end_date, today) ==
    LET end == IF end_date = None THEN FormatYmd(today) ELSE Val(end_date)
        end_dt == parse_ymd(end)
    IN  IF end_dt = None THEN None
        ELSE IF start_date = None
             THEN Some([start_date |-> FormatYmd((Val(end_dt) \div 100) * 100 + 1),
                        end_date |-> end])
        ELSE IF parse_ymd(Val(start_date)) = None THEN None
        ELSE Some([start_date |-> Val(start_date), end_date |-> end])

\* the date column value a "YYYY-MM-DD" text stands for (a text that is not
\* zero-padded sorts among the stored texts differently from this value;
\* the tools are called with padded texts)
DateKey(s) == Val(parse_ymd(s))

\* month_start_end(month_ym) on the str it is given: the pair of strs, or
\* None where int() or the unpacking raises ValueError or monthrange raises
\* IllegalMonthError
month_start_end_str(month_ym) ==
    LET parts == Split(month_ym, 45)
        nums == [i \in DOMAIN parts |-> ToInt(parts[i])]
    IN  IF \E i \in DOMAIN nums : nums[i] = None THEN None
        ELSE IF Len(nums) # 2 THEN None
        ELSE IF Val(nums[2]) \notin 1..12 THEN None
        ELSE LET bounds == month_start_end(Val(nums[1]) * 100 + Val(nums[2]))
             IN  Some(<<FormatYmd(bounds[1]), FormatYmd(bounds[2])>>)

\* an add_months that counts the months of a year from 1 in the total
add_months_from_one(year, month, delta) ==
    LET total == (year * 12 + month) + delta
    IN  <<total \div 12, total % 12>>

\* add_months(year, month, delta): the pair <<new_year, new_month>>;
\* // and % round towards minus infinity, as \div and % do
add_months(year, month, delta) ==
    LET total == (year * 12 + (month - 1)) + delta
    IN  <<total \div 12, (total % 12) + 1>>

(***************************************************************************)
(* Labels used by the callers                                              *)
(***************************************************************************)
Food == <<102, 111, 111, 100>>

Health == <<104, 101, 97, 108, 116, 104>>

Transport == <<116, 114, 97, 110, 115, 112, 111, 114, 116>>

Eur == <<69, 85, 82>>

Business == <<98, 117, 115, 105, 110, 101, 115, 115>>

Education == <<101, 100, 117, 99, 97, 116, 105, 111, 110>>

Subscriptions ==
    <<115, 117, 98, 115, 99, 114, 105, 112, 116, 105, 111, 110, 115>>

GiftsDonations ==
    <<103, 105, 102, 116, 115, 95, 100, 111, 110, 97, 116, 105, 111, 110, 115>>

\* "insurance"
Insurance == <<105, 110, 115, 117, 114, 97, 110, 99, 101>>

\* "Car Insurance"
CarInsurance == <<67, 97, 114, 32, 73, 110, 115, 117, 114, 97, 110, 99, 101>>

\* arguments of add_expense calls
ExpenseInputs ==
    { [date |-> 20241230, amount |-> 12344, category |-> Food,
       subcategory |-> <<>>, note |-> <<65, 98>>, tax_deductible |-> 0,
       currency |-> Eur, payment_method |-> <<>>],
      [date |-> 20241230, amount |-> 5000, category |-> Transport,
       subcategory |-> <<>>, note |-> <<>>, tax_deductible |-> 1,
       currency |-> Eur, payment_method |-> <<>>],
      [date |-> 20250101, amount |-> -2000, category |-> Food,
       subcategory |-> <<>>, note |-> <<98>>, tax_deductible |-> 0,
       currency |-> Eur, payment_method |-> <<>>],
      [date |-> 20250105, amount |-> 0, category |-> Health,
       subcategory |-> <<>>, note |-> <<97>>, tax_deductible |-> 1,
       currency |-> Eur, payment_method |-> <<>>],
      [date |-> 20250106, amount |-> 5000, category |-> Health,
       subcategory |-> <<>>, note |-> <<>>, tax_deductible |-> 0,
       currency |-> Eur, payment_method |-> <<>>] }

(***************************************************************************)
(* The ledger                                                              *)
(***************************************************************************)
\* the rows of the table, as a set
Rows(t) == { t[i] : i \in DOMAIN t }

Ids(t) == { t[i].id : i \in DOMAIN t }

NoResp == [op |-> "none"]

Init ==
    /\ ledger = <<>>
    /\ nextId = 1
    /\ resp = NoResp

\* the key of a new row without AUTOINCREMENT: one more than the largest
\* key in the table
NewIdMaxRowid(t, seq) ==
    IF t = <<>> THEN 1
    ELSE 1 + (CHOOSE m \in Ids(t) : \A i \in Ids(t) : m >= i)

\* the key of a new row, id INTEGER PRIMARY KEY AUTOINCREMENT: one more
\* than the largest key the table ever held, which the store keeps (seq is
\* that number plus one)
NewId(t, seq) == seq

\* INSERT INTO expenses(...) VALUES (?,?,?,?,?,?,?,?)
add_expense(e) ==
    /\ resp = NoResp
    /\ nextId <= MaxId
    /\ ledger' = Append(ledger,
                        [id |-> NewId(ledger, nextId), date |-> e.date,
                         amount |-> e.amount,
                         category |-> e.category, subcategory |-> e.subcategory,
                         note |-> e.note, tax_deductible |-> e.tax_deductible,
                         currency |-> e.currency,
                         payment_method |-> e.payment_method])
    /\ nextId' = NewId(ledger, nextId) + 1
    /\ resp' = [op |-> "add_expense", status |-> "ok",
                id |-> NewId(ledger, nextId)]

\* SELECT * FROM expenses WHERE id = ? and fetchone(): the row, or None
FetchOne(t, id) ==
    IF id \in Ids(t) THEN Some(CHOOSE r \in Rows(t) : r.id = id) ELSE None

\* the columns edit_expense can set, in the order it tests them
EditColumns ==
    << "date", "amount", "category", "subcategory", "note", "tax_deductible",
       "currency", "payment_method" >>

\* an `updates` list that tests the arguments with `if x:`, which leaves out
\* a supplied 0 and a supplied ""
UpdatesTruthy(f) ==
    SelectSeq(EditColumns,
              LAMBDA c : IF c \in {"date", "amount", "tax_deductible"}
                         THEN TruthyNumber(f[c]) ELSE TruthyText(f[c]))

\* the `updates` list: the columns whose argument is not None
Updates(f) == SelectSeq(EditColumns, LAMBDA c : f[c] # None)

\* UPDATE expenses SET <updates> WHERE id = ?, on one row
Updated(r, f) ==
    [c \in DOMAIN r |->
       IF c \in { Updates(f)[i] : i \in DOMAIN Updates(f) } THEN Val(f[c])
       ELSE r[c]]

\* an edit_expense that looks at the supplied fields before it looks for
\* the row
edit_expense_fields_first(id, f) ==
    /\ resp = NoResp
    /\ IF Updates(f) = <<>>
       THEN /\ resp' = [op |-> "edit_expense", status |-> "error", id |-> id,
                        fields |-> f,
                        message |-> "No fields to update"]
            /\ UNCHANGED <<ledger, nextId>>
       ELSE IF FetchOne(ledger, id) = None
       THEN /\ resp' = [op |-> "edit_expense", status |-> "error", id |-> id,
                        fields |-> f,
                        message |-> "Expense with id {id} not found"]
            /\ UNCHANGED <<ledger, nextId>>
       ELSE /\ ledger' = [i \in DOMAIN ledger |->
                            IF ledger[i].id = id THEN Updated(ledger[i], f)
                            ELSE ledger[i]]
            /\ resp' = [op |-> "edit_expense", status |-> "ok", id |-> id,
                        fields |-> f,
                        expense |-> FetchOne(ledger', id)]
            /\ UNCHANGED nextId

\* edit_expense: the row is looked up first, then the supplied fields are
\* collected; `expense` is what the second SELECT returns
edit_expense(id, f) ==
    /\ resp = NoResp
    /\ IF FetchOne(ledger, id) = None
       THEN /\ resp' = [op |-> "edit_expense", status |-> "error", id |-> id,
                        fields |-> f,
                        message |-> "Expense with id {id} not found"]
            /\ UNCHANGED <<ledger, nextId>>
       ELSE IF Updates(f) = <<>>
       THEN /\ resp' = [op |-> "edit_expense", status |-> "error", id |-> id,
                        fields |-> f,
                        message |-> "No fields to update"]
            /\ UNCHANGED <<ledger, nextId>>
       ELSE /\ ledger' = [i \in DOMAIN ledger |->
                            IF ledger[i].id = id THEN Updated(ledger[i], f)
                            ELSE ledger[i]]
            /\ resp' = [op |-> "edit_expense", status |-> "ok", id |-> id,
                        fields |-> f,
                        expense |-> FetchOne(ledger', id)]
            /\ UNCHANGED nextId

delete_expense(id) ==
    /\ resp = NoResp
    /\ IF id \notin Ids(ledger)
       THEN /\ resp' = [op |-> "delete_expense", status |-> "error", id |-> id]
            /\ UNCHANGED <<ledger, nextId>>
       ELSE /\ ledger' = SelectSeq(ledger, LAMBDA r : r.id # id)
            /\ resp' = [op |-> "delete_expense", status |-> "ok", id |-> id]
            /\ UNCHANGED nextId

\* what import_expenses does with one entry of the file: "skip" for a
\* missing date or category and for an amount of 0, "error" for an amount
\* _to_float raises on (None), else "insert"
ImportOutcome(x) ==
    IF x.amount = None THEN "error"
    ELSE IF x.date = None \/ x.category = <<>> THEN "skip"
    ELSE IF Val(x.amount) = 0 THEN "skip"
    ELSE "insert"

\* the rows the import inserts, in the order of the entries; each INSERT
\* takes the next key
RECURSIVE ImportedRows(_, _, _)
ImportedRows(entries, t, seq) ==
    IF entries = <<>> THEN <<>>
    ELSE IF ImportOutcome(Head(entries)) # "insert"
         THEN ImportedRows(Tail(entries), t, seq)
    ELSE LET x == Head(entries)
             row == [id |-> NewId(t, seq), date |-> Val(x.date),
                     amount |-> Val(x.amount), category |-> x.category,
                     subcategory |-> x.subcategory, note |-> x.note,
                     tax_deductible |-> x.tax_deductible,
                     currency |-> x.currency,
                     payment_method |-> x.payment_method]
         IN  <<row>> \o ImportedRows(Tail(entries), Append(t, row),
                                     NewId(t, seq) + 1)

\* import_expenses on a readable file with the given entries
import_expenses(entries) ==
    LET rows == ImportedRows(entries, ledger, nextId)
    IN  /\ resp = NoResp
        /\ nextId + Len(rows) - 1 <= MaxId
        /\ ledger' = ledger \o rows
        /\ nextId' = IF rows = <<>> THEN nextId ELSE rows[Len(rows)].id + 1
        /\ resp' = [op |-> "import_expenses", status |-> "ok",
                    imported_count |-> Len(rows),
                    error_count |-> Len(entries) - Len(rows)]

\* s.replace(",", ".")
CommaToDot(s) == [i \in DOMAIN s |-> IF s[i] = 44 THEN 46 ELSE s[i]]

\* the digits after the decimal point as thousandths (at most 3 digits)
Thousandths(fp) == DigitsValue(fp \o [i \in 1..(3 - Len(fp)) |-> 48])

\* float(s) for a decimal numeral: an optional sign, digits with at most
\* one point and at least one digit; None where float raises ValueError.
\* Exponents, "inf", "nan", underscores and more than 3 decimals are not
\* among the amounts of the model.
ParseFloat(s) ==
    LET body == IF s # <<>> /\ Head(s) \in {43, 45} THEN Tail(s) ELSE s
        parts == Split(body, 46)
        ip == parts[1]
        fp == IF Len(parts) = 2 THEN parts[2] ELSE <<>>
    IN  IF Len(parts) > 2 \/ (ip = <<>> /\ fp = <<>>) THEN None
        ELSE IF \E i \in DOMAIN ip : ip[i] \notin 48..57 THEN None
        ELSE IF \E i \in DOMAIN fp : fp[i] \notin 48..57 THEN None
        ELSE IF Len(fp) > 3 THEN None
        ELSE Some((IF s # <<>> /\ Head(s) = 45 THEN -1 ELSE 1)
                     * (DigitsValue(ip) * 1000 + Thousandths(fp)))

\* a _to_float that does not accept the decimal comma
to_float_point_only(value) ==
    IF value = None THEN Some(0)
    ELSE IF Strip(Val(value)) = <<>> THEN Some(0)
    ELSE ParseFloat(Strip(Val(value)))

\* _to_float(value) of a missing value (None) or a text: the amount in
\* thousandths, or None where it raises
to_float(value) ==
    IF value = None THEN Some(0)
    ELSE IF Strip(Val(value)) = <<>> THEN Some(0)
    ELSE ParseFloat(CommaToDot(Strip(Val(value))))

MissingFields == "Missing required fields (date, category)"

AmountZero == "amount is 0 (skipped)."

\* the loop of import_expenses over the rows of the file from row i on;
\* acc holds the table of the connection, the next key, imported_count and
\* the errors list
RECURSIVE ImportLoop(_, _, _)
ImportLoop(rows, i, acc) ==
    IF i > Len(rows) THEN acc
    ELSE LET x == rows[i]
             category == Strip(x.category)
             amount == to_float(x.amount)
         IN  IF amount = None
             THEN ImportLoop(rows, i + 1,
                     [acc EXCEPT !.errors =
                         Append(@, [row |-> i, message |-> "ValueError"])])
             ELSE IF x.date = None \/ category = <<>>
             THEN ImportLoop(rows, i + 1,
                     [acc EXCEPT !.errors =
                         Append(@, [row |-> i, message |-> MissingFields])])
             ELSE IF Val(amount) = 0
             THEN ImportLoop(rows, i + 1,
                     [acc EXCEPT !.errors =
                         Append(@, [row |-> i, message |-> AmountZero])])
             ELSE ImportLoop(rows, i + 1,
                     [acc EXCEPT
                        !.table = Append(@,
                            [id |-> NewId(acc.table, acc.seq),
                             date |-> Val(x.date), amount |-> Val(amount),
                             category |-> category,
                             subcategory |-> <<>>, note |-> <<>>,
                             tax_deductible |-> 0, currency |-> Eur,
                             payment_method |-> <<>>]),
                        !.seq = NewId(acc.table, acc.seq) + 1,
                        !.imported_count = @ + 1])

\* import_expenses(file_path, format) on a readable csv or json file with
\* the given rows, whose amounts are texts
import_expenses_file(format, rows) ==
    LET done == ImportLoop(rows, 1, [table |-> ledger, seq |-> nextId,
                                     imported_count |-> 0, errors |-> <<>>])
    IN  /\ resp = NoResp
        /\ done.seq - 1 <= MaxId
        /\ ledger' = done.table
        /\ nextId' = done.seq
        /\ resp' = [op |-> "import_expenses", format |-> format,
                    rows |-> rows, status |-> "ok",
                    imported_count |-> done.imported_count,
                    error_count |-> Len(done.errors),
                    errors |-> SubSeq(done.errors, 1,
                                      IF Len(done.errors) < 10
                                      THEN Len(done.errors) ELSE 10)]

\* the tool call returns: its response goes to the caller and nothing of it
\* is kept; calls are served one at a time
ReturnToCaller ==
    /\ resp # NoResp
    /\ resp' = NoResp
    /\ UNCHANGED <<ledger, nextId>>

(***************************************************************************)
(* SQL: the statements the services build and what the store answers       *)
(***************************************************************************)
\* a statement is a sequence of fragments; each "AND" fragment carries one
\* placeholder, bound to the parameter at the same position
Fragment(kw, col, op) == [kw |-> kw, col |-> col, op |-> op]

SelectColumns == Fragment("SELECT", "*", "FROM expenses")

SelectCount == Fragment("SELECT COUNT(*)", "", "FROM expenses")

Where11 == Fragment("WHERE 1=1", "", "")

OrderLimit == Fragment("ORDER BY", "date DESC, id DESC", "LIMIT ? OFFSET ?")

\* one comparison of a row's column with a bound parameter
Holds(frag, param, r) ==
    CASE frag.op = ">=" -> r[frag.col] >= param
      [] frag.op = "<=" -> r[frag.col] <= param
      [] frag.op = "=" -> r[frag.col] = param
      [] frag.op = "LIKE" -> Like(param, r[frag.col])

Conds(sql) == SelectSeq(sql, LAMBDA x : x.kw = "AND")

\* the WHERE clause of a statement, evaluated on one row
Where(sql, params, r) ==
    LET conds == Conds(sql)
    IN  \A i \in DOMAIN conds : Holds(conds[i], params[i], r)

\* ORDER BY date DESC, id ASC
DateDescIdAscBefore(r1, r2) ==
    r1.date > r2.date \/ (r1.date = r2.date /\ r1.id < r2.id)

\* ORDER BY date DESC, id DESC
DateIdBefore(r1, r2) ==
    r1.date > r2.date \/ (r1.date = r2.date /\ r1.id > r2.id)

RECURSIVE OrderByDateIdDesc(_)
OrderByDateIdDesc(S) ==
    IF S = {} THEN <<>>
    ELSE LET first == CHOOSE r \in S : \A o \in S \ {r} : DateIdBefore(r, o)
         IN  <<first>> \o OrderByDateIdDesc(S \ {first})

\* LIMIT ? OFFSET ? with the offset taken as a 1-based position
LimitOffsetFromPosition(s, limit, offset) ==
    LET skip == IF offset < 1 THEN 0 ELSE offset - 1
        rest == IF skip >= Len(s) THEN <<>> ELSE SubSeq(s, skip + 1, Len(s))
    IN  IF limit < 0 \/ limit >= Len(rest) THEN rest
        ELSE SubSeq(rest, 1, limit)

\* LIMIT ? OFFSET ?: a negative LIMIT is no limit, a negative OFFSET is 0
LimitOffset(s, limit, offset) ==
    LET skip == IF offset < 0 THEN 0 ELSE offset
        rest == IF skip >= Len(s) THEN <<>> ELSE SubSeq(s, skip + 1, Len(s))
    IN  IF limit < 0 \/ limit >= Len(rest) THEN rest
        ELSE SubSeq(rest, 1, limit)

\* a SELECT ... ORDER BY ... LIMIT ? OFFSET ? statement; the last two
\* parameters are the limit and the offset
ExecSelectPage(sql, params, t) ==
    LET n == Len(Conds(sql))
        matched == { r \in Rows(t) : Where(sql, params, r) }
    IN  LimitOffset(OrderByDateIdDesc(matched), params[n + 1], params[n + 2])

\* a SELECT COUNT(*) statement
ExecCount(sql, params, t) ==
    Len(SelectSeq(t, LAMBDA r : Where(sql, params, r)))

\* position of the first fragment with the keyword
FirstIndex(sql, kw) ==
    CHOOSE i \in DOMAIN sql :
        sql[i].kw = kw /\ \A j \in 1..(i - 1) : sql[j].kw # kw

\* text.split(kw, 1)[1]
SplitAfter(sql, kw) == SubSeq(sql, FirstIndex(sql, kw) + 1, Len(sql))

\* text.split(kw, 1)[0]
SplitBefore(sql, kw) == SubSeq(sql, 1, FirstIndex(sql, kw) - 1)

(***************************************************************************)
(* expenses_service: search_expenses and list_expenses                     *)
(***************************************************************************)
Opt(present, frag, value) ==
    IF present THEN [sql |-> <<frag>>, params |-> <<value>>]
    ELSE [sql |-> <<>>, params |-> <<>>]

\* the filters appended to "WHERE 1=1", with their parameters
SearchFilterParts(f) ==
    << Opt(TruthyDate(f.start_date), Fragment("AND", "date", ">="),
           IF f.start_date = None THEN 0 ELSE Val(f.start_date)),
       Opt(TruthyDate(f.end_date), Fragment("AND", "date", "<="),
           IF f.end_date = None THEN 0 ELSE Val(f.end_date)),
       Opt(TruthyText(f.category), Fragment("AND", "category", "="),
           IF f.category = None THEN <<>> ELSE Val(f.category)),
       Opt(IsNotNone(f.min_amount), Fragment("AND", "amount", ">="),
           IF f.min_amount = None THEN 0 ELSE Val(f.min_amount)),
       Opt(IsNotNone(f.max_amount), Fragment("AND", "amount", "<="),
           IF f.max_amount = None THEN 0 ELSE Val(f.max_amount)),
       Opt(TruthyText(f.note_contains), Fragment("AND", "note", "LIKE"),
           IF f.note_contains = None THEN <<>>
           ELSE WrapPercent(Val(f.note_contains))),
       Opt(IsNotNone(f.tax_deductible), Fragment("AND", "tax_deductible", "="),
           IF f.tax_deductible = None THEN 0 ELSE Val(f.tax_deductible)) >>

RECURSIVE Concat(_, _)
Concat(parts, field) ==
    IF parts = <<>> THEN <<>>
    ELSE Head(parts)[field] \o Concat(Tail(parts), field)

\* the statement text after the filters and the ORDER BY are appended
SearchQuery(f) ==
    <<SelectColumns, Where11>> \o Concat(SearchFilterParts(f), "sql")
        \o <<OrderLimit>>

SearchParams(f) == Concat(SearchFilterParts(f), "params")

\* a count_query that drops the filters
CountQueryUnfiltered(query) == <<SelectCount, Where11>>

\* count_query: "SELECT COUNT(*) FROM expenses WHERE 1=1" followed by the
\* part of the query between "WHERE 1=1" and "ORDER BY"
CountQuery(query) ==
    <<SelectCount, Where11>>
        \o SplitBefore(SplitAfter(query, "WHERE 1=1"), "ORDER BY")

search_expenses(f, limit, offset) ==
    LET query == SearchQuery(f)
        params == SearchParams(f)
        query_params == params \o <<limit, offset>>
        results == ExecSelectPage(query, query_params, ledger)
        total_count == ExecCount(CountQuery(query), params, ledger)
    IN  /\ resp = NoResp
        /\ resp' = [op |-> "search_expenses", filters |-> f,
                    results |-> results, total_count |-> total_count,
                    limit |-> limit, offset |-> offset]
        /\ UNCHANGED <<ledger, nextId>>

\* WHERE date BETWEEN ? AND ? ORDER BY date DESC, id DESC
list_expenses(start_date, end_date) ==
    LET matched == { r \in Rows(ledger) :
                        r.date >= start_date /\ r.date <= end_date }
    IN  /\ resp = NoResp
        /\ resp' = [op |-> "list_expenses", start_date |-> start_date,
                    end_date |-> end_date,
                    results |-> OrderByDateIdDesc(matched)]
        /\ UNCHANGED <<ledger, nextId>>

(***************************************************************************)
(* SQL aggregates                                                          *)
(***************************************************************************)
\* BETWEEN that takes its two bounds in either order
BetweenSymmetric(t, start_date, end_date) ==
    SelectSeq(t, LAMBDA r : \/ (r.date >= start_date /\ r.date <= end_date)
                            \/ (r.date >= end_date /\ r.date <= start_date))

\* WHERE date BETWEEN ? AND ?, in table order
Between(t, start_date, end_date) ==
    SelectSeq(t, LAMBDA r : r.date >= start_date /\ r.date <= end_date)

\* a category filter that is not applied
OfCategoryIgnored(rows, category) == rows

\* AND category = ?
OfCategory(rows, category) == SelectSeq(rows, LAMBDA r : r.category = category)

RECURSIVE Total(_)
Total(rows) ==
    IF rows = <<>> THEN 0 ELSE Head(rows).amount + Total(Tail(rows))

\* SUM(amount): NULL (None) over no rows
SqlSum(rows) == IF rows = <<>> THEN None ELSE Some(Total(rows))

RECURSIVE Least(_)
Least(rows) ==
    IF Len(rows) = 1 THEN Head(rows).amount
    ELSE LET m == Least(Tail(rows))
         IN  IF Head(rows).amount < m THEN Head(rows).amount ELSE m

RECURSIVE Greatest(_)
Greatest(rows) ==
    IF Len(rows) = 1 THEN Head(rows).amount
    ELSE LET m == Greatest(Tail(rows))
         IN  IF Head(rows).amount > m THEN Head(rows).amount ELSE m

\* MIN(amount), MAX(amount)
SqlMin(rows) == IF rows = <<>> THEN None ELSE Some(Least(rows))

SqlMax(rows) == IF rows = <<>> THEN None ELSE Some(Greatest(rows))

\* Python `x or 0`: 0 for None and for 0
OrZero(o) == IF o = None \/ Val(o) = 0 THEN 0 ELSE Val(o)

\* round(AVG(amount) or 0, 2): the average is total / count
RoundAvg(rows) ==
    IF rows = <<>> THEN 0 ELSE RoundDiv(Total(rows), 10 * Len(rows))

\* the values of the grouping column over the rows (GROUP BY)
Keys(rows, col) == { rows[i][col] : i \in DOMAIN rows }

\* the rows of one group
Group(rows, col, k) == SelectSeq(rows, LAMBDA r : r[col] = k)

\* ORDER BY category ASC
RECURSIVE OrderTextAsc(_)
OrderTextAsc(S) ==
    IF S = {} THEN <<>>
    ELSE LET first == CHOOSE x \in S : \A y \in S \ {x} : TextLess(x, y)
         IN  <<first>> \o OrderTextAsc(S \ {first})

\* ORDER BY period ASC
RECURSIVE OrderAsc(_)
OrderAsc(S) ==
    IF S = {} THEN <<>>
    ELSE LET first == CHOOSE x \in S : \A y \in S : x <= y
         IN  <<first>> \o OrderAsc(S \ {first})

\* ORDER BY total DESC: every order the store may answer with; the order
\* of groups with equal totals is not determined
RECURSIVE OrdersByTotalDesc(_)
OrdersByTotalDesc(G) ==
    IF G = {} THEN {<<>>}
    ELSE UNION { { <<g>> \o rest : rest \in OrdersByTotalDesc(G \ {g}) } :
                 g \in { x \in G : \A y \in G : x.raw_total >= y.raw_total } }

(***************************************************************************)
(* analytics_service                                                       *)
(***************************************************************************)
\* a period expression without the week branch
PeriodOfDayOrMonth(group_by, date) ==
    IF group_by = "day" THEN date ELSE MonthKey(date)

\* the period expression of analyze_trends (date_trunc)
PeriodOf(group_by, date) ==
    IF group_by = "day" THEN date
    ELSE IF group_by = "week" THEN WeekKey(date)
    ELSE MonthKey(date)

\* SELECT {date_trunc} AS period: the rows with the derived column
WithPeriod(rows, group_by) ==
    [i \in DOMAIN rows |->
       [period |-> PeriodOf(group_by, rows[i].date), amount |-> rows[i].amount]]

\* the rows summarize returns; total_amount is SUM(amount) as the store
\* returns it, not rounded
SummarizeResult(start_date, end_date, category) ==
    LET ranged == Between(ledger, start_date, end_date)
        rows == IF TruthyText(category) THEN OfCategory(ranged, Val(category))
                ELSE ranged
        cats == OrderTextAsc(Keys(rows, "category"))
    IN  [i \in DOMAIN cats |->
           [category |-> cats[i],
            total_amount |-> Total(Group(rows, "category", cats[i]))]]

summarize(start_date, end_date, category) ==
    /\ resp = NoResp
    /\ resp' = [op |-> "summarize", start_date |-> start_date,
                end_date |-> end_date, category |-> category,
                result |-> SummarizeResult(start_date, end_date, category)]
    /\ UNCHANGED <<ledger, nextId>>

\* SELECT SUM(amount) ... WHERE date BETWEEN ? AND ? [AND category = ?]
MonthTotal(month, category) ==
    LET bounds == month_start_end(month)
        ranged == Between(ledger, bounds[1], bounds[2])
        rows == IF TruthyText(category) THEN OfCategory(ranged, Val(category))
                ELSE ranged
    IN  OrZero(SqlSum(rows))

\* diff / total1 * 100 without the factor 100
PercentChangeAsRatio(diff, total1) ==
    IF total1 > 0 THEN RoundDiv(diff * 100, total1) ELSE 0

\* round((diff / total1 * 100) if total1 > 0 else 0, 2), in hundredths of a
\* percent
PercentChange(diff, total1) ==
    IF total1 > 0 THEN RoundDiv(diff * 10000, total1) ELSE 0

compare_months(month1, month2, category) ==
    LET total1 == MonthTotal(month1, category)
        total2 == MonthTotal(month2, category)
        diff == total2 - total1
    IN  /\ resp = NoResp
        /\ resp' = [op |-> "compare_months", month1 |-> month1,
                    total1 |-> Round2(total1), month2 |-> month2,
                    total2 |-> Round2(total2), difference |-> Round2(diff),
                    percent_change |-> PercentChange(diff, total1),
                    category |-> category]
        /\ UNCHANGED <<ledger, nextId>>

analyze_trends(start_date, end_date, group_by) ==
    LET rows == WithPeriod(Between(ledger, start_date, end_date), group_by)
        periods == OrderAsc(Keys(rows, "period"))
        trends == [i \in DOMAIN periods |->
                     LET g == Group(rows, "period", periods[i])
                     IN  [period |-> periods[i],
                          expense_count |-> Len(g),
                          total |-> Round2(OrZero(SqlSum(g))),
                          average |-> RoundAvg(g),
                          min_amount |-> Round2(OrZero(SqlMin(g))),
                          max_amount |-> Round2(OrZero(SqlMax(g)))]]
    IN  /\ resp = NoResp
        /\ resp' = [op |-> "analyze_trends", group_by |-> group_by,
                    start_date |-> start_date, end_date |-> end_date,
                    trends |-> trends]
        /\ UNCHANGED <<ledger, nextId>>

\* the rows of the GROUP BY category query, before they are ordered
CategoryGroups(rows) ==
    { [category |-> c,
       count |-> Len(Group(rows, "category", c)),
       raw_total |-> Total(Group(rows, "category", c))] :
      c \in Keys(rows, "category") }

\* a percentage that is cut off instead of rounded
PercentageTruncated(total, total_spent) ==
    IF total_spent > 0 THEN (total * 10000) \div total_spent ELSE 0

\* round((total / total_spent * 100) if total_spent > 0 else 0, 2), in
\* hundredths of a percent
Percentage(total, total_spent) ==
    IF total_spent > 0 THEN RoundDiv(total * 10000, total_spent) ELSE 0

category_analytics(start_date, end_date) ==
    LET rows == Between(ledger, start_date, end_date)
        total_spent == OrZero(SqlSum(rows))
    IN  /\ resp = NoResp
        /\ \E ordered \in OrdersByTotalDesc(CategoryGroups(rows)) :
              resp' = [op |-> "category_analytics",
                       start_date |-> start_date, end_date |-> end_date,
                       total_spent |-> Round2(total_spent),
                       categories |->
                          [i \in DOMAIN ordered |->
                             LET g == Group(rows, "category", ordered[i].category)
                             IN  [category |-> ordered[i].category,
                                  count |-> ordered[i].count,
                                  percentage |->
                                     Percentage(ordered[i].raw_total, total_spent),
                                  total |-> Round2(OrZero(Some(ordered[i].raw_total))),
                                  average |-> RoundAvg(g),
                                  min_amount |-> Round2(OrZero(SqlMin(g))),
                                  max_amount |-> Round2(OrZero(SqlMax(g)))]]]
        /\ UNCHANGED <<ledger, nextId>>

\* GROUP BY <key> ORDER BY SUM(amount) ASC LIMIT 1
BottomGroups(rows, col) ==
    LET sums == { [key |-> k, total |-> Total(Group(rows, col, k))] :
                  k \in Keys(rows, col) }
    IN  IF sums = {} THEN {None}
        ELSE { Some(g) : g \in { x \in sums : \A y \in sums : x.total <= y.total } }

\* GROUP BY <key> ORDER BY SUM(amount) DESC LIMIT 1: None when there is no
\* group, else any group with the largest sum
TopGroups(rows, col) ==
    LET sums == { [key |-> k, total |-> Total(Group(rows, col, k))] :
                  k \in Keys(rows, col) }
    IN  IF sums = {} THEN {None}
        ELSE { Some(g) : g \in { x \in sums : \A y \in sums : x.total >= y.total } }

\* a day count that leaves the end day out
DaysDiffExclusive(start_date, end_date) ==
    Ordinal(end_date) - Ordinal(start_date)

\* (strptime(end_date) - strptime(start_date)).days + 1
DaysDiff(start_date, end_date) ==
    Ordinal(end_date) - Ordinal(start_date) + 1

\* daily_average is total / days_diff when days_diff > 0
get_statistics(start_date, end_date) ==
    LET rows == Between(ledger, start_date, end_date)
        days_diff == DaysDiff(start_date, end_date)
        total == OrZero(SqlSum(rows))
    IN  /\ resp = NoResp
        /\ \E expensive_day \in TopGroups(rows, "date"),
              top_category \in TopGroups(rows, "category") :
              resp' = [op |-> "get_statistics",
                       start_date |-> start_date, end_date |-> end_date,
                       total_expenses |-> Len(rows),
                       total_spent |-> Round2(total),
                       average_expense |-> RoundAvg(rows),
                       min_expense |-> Round2(OrZero(SqlMin(rows))),
                       max_expense |-> Round2(OrZero(SqlMax(rows))),
                       daily_average |->
                          IF days_diff > 0 THEN RoundDiv(total, 10 * days_diff)
                          ELSE 0,
                       most_expensive_day |->
                          [date |-> IF expensive_day # None
                                    THEN Some(Val(expensive_day).key) ELSE None,
                           total |-> IF expensive_day # None
                                     THEN Round2(Val(expensive_day).total) ELSE 0],
                       top_category |->
                          [category |-> IF top_category # None
                                        THEN Some(Val(top_category).key) ELSE None,
                           total |-> IF top_category # None
                                     THEN Round2(Val(top_category).total) ELSE 0]]
        /\ UNCHANGED <<ledger, nextId>>

\* the rows of the inner query for one category: GROUP BY category, month
\* with SUM(amount) AS monthly_total
MonthlyTotals(rows, cat) ==
    LET g == Group(rows, "category", cat)
        months == OrderAsc({ MonthKey(g[i].date) : i \in DOMAIN g })
    IN  [i \in DOMAIN months |->
           [month |-> months[i],
            monthly_total |->
               Total(SelectSeq(g, LAMBDA r : MonthKey(r.date) = months[i]))]]

RECURSIVE SumMonthly(_)
SumMonthly(monthly) ==
    IF monthly = <<>> THEN 0
    ELSE Head(monthly).monthly_total + SumMonthly(Tail(monthly))

\* an average over every month from the first to the last month with rows,
\* a month without rows counting as zero
AvgMonthlySpendOverSpan(monthly) ==
    LET first == monthly[1].month
        last == monthly[Len(monthly)].month
        span == ((last \div 100) * 12 + (last % 100))
                    - ((first \div 100) * 12 + (first % 100)) + 1
    IN  RoundDiv(SumMonthly(monthly), 10 * span)

\* round(AVG(monthly_total) or 0, 2) over the months of one category
AvgMonthlySpend(monthly) ==
    RoundDiv(SumMonthly(monthly), 10 * Len(monthly))

\* the rows of an unordered GROUP BY, in every order the store may answer
RECURSIVE Orders(_)
Orders(S) ==
    IF S = {} THEN {<<>>}
    ELSE UNION { { <<x>> \o rest : rest \in Orders(S \ {x}) } : x \in S }

\* a projected month whose year does not roll over
ForecastMonthSameYear(base_year, base_month, i) ==
    base_year * 100 + ((base_month - 1 + i) % 12) + 1

\* f"{fy:04d}-{fm:02d}" of add_months(base_year, base_month, i), as YYYYMM
ForecastMonth(base_year, base_month, i) ==
    LET ym == add_months(base_year, base_month, i)
    IN  ym[1] * 100 + ym[2]

\* a history that starts on today's day of the month
HistoryStartSameDay(today, based_on_last_months) ==
    LET hist == add_months(YearOf(today), MonthOf(today), -based_on_last_months)
    IN  hist[1] * 10000 + hist[2] * 100 + DayOf(today)

\* history_start: f"{hist_year:04d}-{hist_month:02d}-01"
HistoryStart(today, based_on_last_months) ==
    LET hist == add_months(YearOf(today), MonthOf(today), -based_on_last_months)
    IN  hist[1] * 10000 + hist[2] * 100 + 1

\* today is datetime.now(), read once at the start of the call
forecast_expenses(months_ahead, based_on_last_months, today) ==
    LET base_year == YearOf(today)
        base_month == MonthOf(today)
        history_start == HistoryStart(today, based_on_last_months)
        history_end == today
        rows == Between(ledger, history_start, history_end)
    IN  /\ resp = NoResp
        /\ \E cats \in Orders(Keys(rows, "category")) :
              LET category_forecasts ==
                      [k \in DOMAIN cats |->
                         LET avg_spend == AvgMonthlySpend(MonthlyTotals(rows, cats[k]))
                         IN  [category |-> cats[k],
                              historical_avg_monthly |-> avg_spend,
                              projections |->
                                 [i \in 1..months_ahead |->
                                    [month |-> ForecastMonth(base_year, base_month, i),
                                     projected_amount |-> avg_spend]]]]
                  total_monthly_avg ==
                      SumMonthly([k \in DOMAIN cats |->
                                    [monthly_total |->
                                        category_forecasts[k].historical_avg_monthly]])
              IN  resp' = [op |-> "forecast_expenses",
                           today |-> today,
                           based_on_months |-> based_on_last_months,
                           history_start |-> history_start,
                           history_end |-> history_end,
                           forecast_months |-> months_ahead,
                           total_forecast |->
                              [monthly_average |-> total_monthly_avg,
                               projections |->
                                  [i \in 1..months_ahead |->
                                     [month |-> ForecastMonth(base_year, base_month, i),
                                      projected_total |-> total_monthly_avg]]],
                           category_forecasts |-> category_forecasts]
        /\ UNCHANGED <<ledger, nextId>>

\* the keys of the tax_categories dict, in insertion order
TaxBuckets ==
    << "Werbungskosten (Work-related)", "Gesundheitskosten (Health)",
       "Versicherungen (Insurance)", "Spenden (Donations)",
       "Sonstige (Other)" >>

\* str.lower() of an ASCII text
LowerText(s) == [i \in DOMAIN s |-> Lower(s[i])]

\* `sub in s` for two strs
In(sub, s) ==
    \E i \in 0..(Len(s) - Len(sub)) : SubSeq(s, i + 1, i + Len(sub)) = sub

\* `x or ""` for a TEXT column value, NULL being None
OrEmpty(o) == IF o = None THEN <<>> ELSE Val(o)

\* a classification that looks at the subcategory first
BucketInsuranceFirst(cat, subcategory) ==
    IF In(Insurance, LowerText(OrEmpty(subcategory))) THEN TaxBuckets[3]
    ELSE IF cat \in {Business, Education, Subscriptions} THEN TaxBuckets[1]
    ELSE IF cat = Health THEN TaxBuckets[2]
    ELSE IF cat = GiftsDonations THEN TaxBuckets[4]
    ELSE TaxBuckets[5]

\* the if/elif chain of tax_summary: the bucket of one row
Bucket(cat, subcategory) ==
    IF cat \in {Business, Education, Subscriptions} THEN TaxBuckets[1]
    ELSE IF cat = Health THEN TaxBuckets[2]
    ELSE IF In(Insurance, LowerText(OrEmpty(subcategory))) THEN TaxBuckets[3]
    ELSE IF cat = GiftsDonations THEN TaxBuckets[4]
    ELSE TaxBuckets[5]

\* the classification applied to one (category, subcategory) pair
classify(cat, subcategory) ==
    /\ resp = NoResp
    /\ resp' = [op |-> "classify", category |-> cat,
                subcategory |-> subcategory,
                bucket |-> Bucket(cat, subcategory)]
    /\ UNCHANGED <<ledger, nextId>>

\* SELECT id, date, amount, category, subcategory, note, payment_method
TaxColumns(r) ==
    [id |-> r.id, date |-> r.date, amount |-> r.amount,
     category |-> r.category, subcategory |-> r.subcategory,
     note |-> r.note, payment_method |-> r.payment_method]

\* ORDER BY date ASC: every order the store may answer with; the order of
\* rows of one date is not determined
RECURSIVE OrdersByDateAsc(_)
OrdersByDateAsc(S) ==
    IF S = {} THEN {<<>>}
    ELSE UNION { { <<r>> \o rest : rest \in OrdersByDateAsc(S \ {r}) } :
                 r \in { x \in S : \A y \in S : x.date <= y.date } }

\* a selection that keeps the rows that are not tax-deductible
TaxSelectionAnyFlag(year, category) ==
    { TaxColumns(r) :
        r \in { x \in Rows(ledger) :
                  /\ x.date >= year * 10000 + 101
                  /\ x.date <= year * 10000 + 1231
                  /\ TruthyText(category) => x.category = Val(category) } }

\* WHERE date BETWEEN ? AND ? AND tax_deductible = 1 [AND category = ?]
TaxSelection(year, category) ==
    { TaxColumns(r) :
        r \in { x \in Rows(ledger) :
                  /\ x.date >= year * 10000 + 101
                  /\ x.date <= year * 10000 + 1231
                  /\ x.tax_deductible = 1
                  /\ TruthyText(category) => x.category = Val(category) } }

\* the entries of `summary`: the buckets that have rows, in dict order
TaxSummaryEntries(tax_expenses) ==
    LET entry(i) ==
            LET exps == SelectSeq(tax_expenses,
                            LAMBDA r : Bucket(r.category, Some(r.subcategory))
                                          = TaxBuckets[i])
            IN  [tax_category |-> TaxBuckets[i],
                 total |-> Round2(Total(exps)),
                 count |-> Len(exps),
                 expenses |-> exps]
    IN  SelectSeq([i \in DOMAIN TaxBuckets |-> entry(i)],
                  LAMBDA e : e.expenses # <<>>)

tax_summary(year, category) ==
    /\ resp = NoResp
    /\ \E tax_expenses \in OrdersByDateAsc(TaxSelection(year, category)) :
          resp' = [op |-> "tax_summary", year |-> year,
                   filter_category |-> category,
                   grand_total |-> Round2(Total(tax_expenses)),
                   total_count |-> Len(tax_expenses),
                   summary |-> TaxSummaryEntries(tax_expenses)]
    /\ UNCHANGED <<ledger, nextId>>

(***************************************************************************)
(* server: the tools that take an optional date range                      *)
(***************************************************************************)
\* the call ends with the ValueError that normalize_date_range raised
Raise(tool) ==
    /\ resp = NoResp
    /\ resp' = [op |-> "raise", tool |-> tool, error |-> "ValueError"]
    /\ UNCHANGED <<ledger, nextId>>

\* _range(start_date, end_date), called on its own
normalize(start_date, end_date, today) ==
    /\ resp = NoResp
    /\ resp' = [op |-> "normalize_date_range", start_date |-> start_date,
                end_date |-> end_date, today |-> today,
                result |-> normalize_date_range(start_date, end_date, today)]
    /\ UNCHANGED <<ledger, nextId>>

\* what a tool does with its optional bounds: it calls _range, which
\* raises or gives the bounds the service is called with (as date column
\* values)
RangeOutcomes(start_date, end_date, today) ==
    { IF r = None THEN [raised |-> TRUE, s |-> 0, e |-> 0]
      ELSE [raised |-> FALSE, s |-> DateKey(Val(r).start_date),
            e |-> DateKey(Val(r).end_date)] :
      r \in {normalize_date_range(start_date, end_date, today)} }

\* s, e = _range(start_date, end_date); return list_expenses_impl(s, e)
list_expenses_tool(start_date, end_date, today) ==
    \E r \in RangeOutcomes(start_date, end_date, today) :
        IF r.raised THEN Raise("list_expenses") ELSE list_expenses(r.s, r.e)

summarize_tool(start_date, end_date, category, today) ==
    \E r \in RangeOutcomes(start_date, end_date, today) :
        IF r.raised THEN Raise("summarize") ELSE summarize(r.s, r.e, category)

analyze_trends_tool(start_date, end_date, group_by, today) ==
    \E r \in RangeOutcomes(start_date, end_date, today) :
        IF r.raised THEN Raise("analyze_trends")
        ELSE analyze_trends(r.s, r.e, group_by)

category_analytics_tool(start_date, end_date, today) ==
    \E r \in RangeOutcomes(start_date, end_date, today) :
        IF r.raised THEN Raise("category_analytics")
        ELSE category_analytics(r.s, r.e)

get_statistics_tool(start_date, end_date, today) ==
    \E r \in RangeOutcomes(start_date, end_date, today) :
        IF r.raised THEN Raise("get_statistics") ELSE get_statistics(r.s, r.e)

(***************************************************************************)
(* Calls that run at the same time, each on its own connection.  resp      *)
(* holds one record per caller: the call it is in, the statement it has    *)
(* reached (pc) and, at the end, the response.  ledger is the committed    *)
(* table; a connection that has written keeps its own table (view) until   *)
(* the commit at the end of `with connect()`, and holds the write lock of  *)
(* the store from its first write to that commit.                          *)
(***************************************************************************)
Callers == {"a", "b"}

\* a caller that is not in a call
Idle == [op |-> "none", pc |-> "idle"]

HoldsWriteLock(c) == resp[c].pc \in {"updated", "deleted", "inserting"}

WriteLockFree == \A c \in Callers : ~HoldsWriteLock(c)

\* edit_expense up to its first SELECT and the two early returns
edit_select(c, id, f) ==
    /\ resp[c] = Idle
    /\ resp' = [resp EXCEPT ![c] =
                  IF FetchOne(ledger, id) = None
                  THEN [op |-> "edit_expense", pc |-> "done",
                        status |-> "error", id |-> id, fields |-> f,
                        message |-> "Expense with id {id} not found"]
                  ELSE IF Updates(f) = <<>>
                  THEN [op |-> "edit_expense", pc |-> "done",
                        status |-> "error", id |-> id, fields |-> f,
                        message |-> "No fields to update"]
                  ELSE [op |-> "edit_expense", pc |-> "selected",
                        id |-> id, fields |-> f]]
    /\ UNCHANGED <<ledger, nextId>>

\* the UPDATE: it waits for the write lock and then runs on the table as it
\* is committed at that moment; rowcount is the number of rows it changed
edit_update(c) ==
    /\ resp[c].op = "edit_expense" /\ resp[c].pc = "selected"
    /\ WriteLockFree
    /\ resp' = [resp EXCEPT ![c] =
                  [op |-> "edit_expense", pc |-> "updated",
                   id |-> resp[c].id, fields |-> resp[c].fields,
                   rowcount |-> IF resp[c].id \in Ids(ledger) THEN 1 ELSE 0,
                   view |-> [i \in DOMAIN ledger |->
                               IF ledger[i].id = resp[c].id
                               THEN Updated(ledger[i], resp[c].fields)
                               ELSE ledger[i]]]]
    /\ UNCHANGED <<ledger, nextId>>

\* the second SELECT, on the connection's own table, the return and the
\* commit at the end of `with connect()`
edit_return(c) ==
    /\ resp[c].op = "edit_expense" /\ resp[c].pc = "updated"
    /\ ledger' = resp[c].view
    /\ resp' = [resp EXCEPT ![c] =
                  [op |-> "edit_expense", pc |-> "done", status |-> "ok",
                   id |-> resp[c].id, fields |-> resp[c].fields,
                   rowcount |-> resp[c].rowcount,
                   expense |-> FetchOne(resp[c].view, resp[c].id)]]
    /\ UNCHANGED nextId

\* delete_expense up to its SELECT 1 and the early return
delete_select(c, id) ==
    /\ resp[c] = Idle
    /\ resp' = [resp EXCEPT ![c] =
                  IF id \notin Ids(ledger)
                  THEN [op |-> "delete_expense", pc |-> "done",
                        status |-> "error", id |-> id]
                  ELSE [op |-> "delete_expense", pc |-> "selected", id |-> id]]
    /\ UNCHANGED <<ledger, nextId>>

\* the DELETE, after the wait for the write lock
delete_delete(c) ==
    /\ resp[c].op = "delete_expense" /\ resp[c].pc = "selected"
    /\ WriteLockFree
    /\ resp' = [resp EXCEPT ![c] =
                  [op |-> "delete_expense", pc |-> "deleted", id |-> resp[c].id,
                   rowcount |-> IF resp[c].id \in Ids(ledger) THEN 1 ELSE 0,
                   view |-> SelectSeq(ledger, LAMBDA r : r.id # resp[c].id)]]
    /\ UNCHANGED <<ledger, nextId>>

\* the return and the commit
delete_return(c) ==
    /\ resp[c].op = "delete_expense" /\ resp[c].pc = "deleted"
    /\ ledger' = resp[c].view
    /\ resp' = [resp EXCEPT ![c] =
                  [op |-> "delete_expense", pc |-> "done", status |-> "ok",
                   id |-> resp[c].id, rowcount |-> resp[c].rowcount]]
    /\ UNCHANGED nextId

\* busy_timeout runs out while another connection holds the write lock:
\* the write raises sqlite3.OperationalError and the call ends without a
\* response
database_locked(c) ==
    /\ resp[c].pc = "selected"
    /\ ~WriteLockFree
    /\ resp' = [resp EXCEPT ![c] =
                  [op |-> resp[c].op, pc |-> "done", status |-> "raised",
                   id |-> resp[c].id, error |-> "OperationalError"]]
    /\ UNCHANGED <<ledger, nextId>>

\* a read that sees what another connection has written and not committed
ReadTableUncommitted(c) ==
    IF \E d \in Callers : HoldsWriteLock(d)
    THEN resp[CHOOSE d \in Callers : HoldsWriteLock(d)].view
    ELSE ledger

\* the table a statement of caller c reads: the committed table (WAL), or
\* the connection's own table once it has written
ReadTable(c) == IF HoldsWriteLock(c) THEN resp[c].view ELSE ledger

\* category_analytics, first query: SELECT SUM(amount) ... or 0
analytics_total(c, start_date, end_date) ==
    /\ resp[c] = Idle
    /\ resp' = [resp EXCEPT ![c] =
                  [op |-> "category_analytics", pc |-> "total",
                   start_date |-> start_date, end_date |-> end_date,
                   total_spent |->
                      OrZero(SqlSum(Between(ReadTable(c), start_date, end_date)))]]
    /\ UNCHANGED <<ledger, nextId>>

\* category_analytics, second query (GROUP BY category) and the response
analytics_categories(c) ==
    LET rows == Between(ReadTable(c), resp[c].start_date, resp[c].end_date)
        total_spent == resp[c].total_spent
    IN  /\ resp[c].op = "category_analytics" /\ resp[c].pc = "total"
        /\ \E ordered \in OrdersByTotalDesc(CategoryGroups(rows)) :
              resp' = [resp EXCEPT ![c] =
                  [op |-> "category_analytics", pc |-> "done",
                   start_date |-> resp[c].start_date,
                   end_date |-> resp[c].end_date,
                   total_spent |-> Round2(total_spent),
                   categories |->
                      [i \in DOMAIN ordered |->
                         LET g == Group(rows, "category", ordered[i].category)
                         IN  [category |-> ordered[i].category,
                              count |-> ordered[i].count,
                              percentage |->
                                 Percentage(ordered[i].raw_total, total_spent),
                              total |-> Round2(OrZero(Some(ordered[i].raw_total))),
                              average |-> RoundAvg(g),
                              min_amount |-> Round2(OrZero(SqlMin(g))),
                              max_amount |-> Round2(OrZero(SqlMax(g)))]]]]
        /\ UNCHANGED <<ledger, nextId>>

\* get_statistics, first query: COUNT, SUM, AVG, MIN, MAX
stats_aggregate(c, start_date, end_date) ==
    LET rows == Between(ReadTable(c), start_date, end_date)
    IN  /\ resp[c] = Idle
        /\ resp' = [resp EXCEPT ![c] =
                      [op |-> "get_statistics", pc |-> "stats",
                       start_date |-> start_date, end_date |-> end_date,
                       stats |-> [count |-> Len(rows), total |-> SqlSum(rows),
                                  average |-> RoundAvg(rows),
                                  min_amount |-> SqlMin(rows),
                                  max_amount |-> SqlMax(rows)]]]
        /\ UNCHANGED <<ledger, nextId>>

\* get_statistics, second query: the day with the largest total
stats_expensive_day(c) ==
    LET rows == Between(ReadTable(c), resp[c].start_date, resp[c].end_date)
    IN  /\ resp[c].op = "get_statistics" /\ resp[c].pc = "stats"
        /\ \E expensive_day \in TopGroups(rows, "date") :
              resp' = [resp EXCEPT ![c] =
                  [op |-> "get_statistics", pc |-> "day",
                   start_date |-> resp[c].start_date,
                   end_date |-> resp[c].end_date,
                   stats |-> resp[c].stats,
                   expensive_day |-> expensive_day]]
        /\ UNCHANGED <<ledger, nextId>>

\* get_statistics, third query (the category with the largest total) and
\* the response
stats_top_category(c) ==
    LET rows == Between(ReadTable(c), resp[c].start_date, resp[c].end_date)
        stats == resp[c].stats
        expensive_day == resp[c].expensive_day
        days_diff == DaysDiff(resp[c].start_date, resp[c].end_date)
        total == OrZero(stats.total)
    IN  /\ resp[c].op = "get_statistics" /\ resp[c].pc = "day"
        /\ \E top_category \in TopGroups(rows, "category") :
              resp' = [resp EXCEPT ![c] =
                  [op |-> "get_statistics", pc |-> "done",
                   start_date |-> resp[c].start_date,
                   end_date |-> resp[c].end_date,
                   total_expenses |-> stats.count,
                   total_spent |-> Round2(total),
                   average_expense |-> stats.average,
                   min_expense |-> Round2(OrZero(stats.min_amount)),
                   max_expense |-> Round2(OrZero(stats.max_amount)),
                   daily_average |->
                      IF days_diff > 0 THEN RoundDiv(total, 10 * days_diff)
                      ELSE 0,
                   most_expensive_day |->
                      [date |-> IF expensive_day # None
                                THEN Some(Val(expensive_day).key) ELSE None,
                       total |-> IF expensive_day # None
                                 THEN Round2(Val(expensive_day).total) ELSE 0],
                   top_category |->
                      [category |-> IF top_category # None
                                    THEN Some(Val(top_category).key) ELSE None,
                       total |-> IF top_category # None
                                 THEN Round2(Val(top_category).total) ELSE 0]]]
        /\ UNCHANGED <<ledger, nextId>>

\* the rows that calls in progress may still insert
RECURSIVE Reserved(_)
Reserved(S) ==
    IF S = {} THEN 0
    ELSE LET c == CHOOSE x \in S : TRUE
         IN  (IF resp[c].op = "import_expenses" /\ resp[c].pc # "done"
              THEN Len(ImportedRows(resp[c].entries, <<>>, 1)) ELSE 0)
               + Reserved(S \ {c})

\* import_expenses up to the loop over the entries of the file
import_open(c, entries) ==
    /\ resp[c] = Idle
    /\ (nextId - 1) + Reserved(Callers) + Len(ImportedRows(entries, <<>>, 1))
          <= MaxId
    /\ resp' = [resp EXCEPT ![c] =
                  [op |-> "import_expenses", pc |-> "reading",
                   entries |-> entries, row |-> 1,
                   imported_count |-> 0, error_count |-> 0]]
    /\ UNCHANGED <<ledger, nextId>>

\* one turn of the loop: the entry is skipped with an error message, or
\* inserted on the connection's own table; the first INSERT takes the
\* write lock
import_row(c) ==
    LET x == resp[c].entries[resp[c].row]
        t == IF HoldsWriteLock(c) THEN resp[c].view ELSE ledger
        seq == IF HoldsWriteLock(c) THEN resp[c].seq ELSE nextId
    IN  /\ resp[c].op = "import_expenses"
        /\ resp[c].pc \in {"reading", "inserting"}
        /\ resp[c].row <= Len(resp[c].entries)
        /\ IF ImportOutcome(x) # "insert"
           THEN resp' = [resp EXCEPT ![c].row = @ + 1,
                                     ![c].error_count = @ + 1]
           ELSE /\ HoldsWriteLock(c) \/ WriteLockFree
                /\ resp' = [resp EXCEPT ![c] =
                      [op |-> "import_expenses", pc |-> "inserting",
                       entries |-> resp[c].entries, row |-> resp[c].row + 1,
                       imported_count |-> resp[c].imported_count + 1,
                       error_count |-> resp[c].error_count,
                       view |-> t \o ImportedRows(<<x>>, t, seq),
                       seq |-> NewId(t, seq) + 1]]
        /\ UNCHANGED <<ledger, nextId>>

\* an INSERT that finds the write lock taken until busy_timeout runs out:
\* the exception is caught in the loop and counted as the entry's error
import_row_locked(c) ==
    /\ resp[c].op = "import_expenses" /\ resp[c].pc = "reading"
    /\ resp[c].row <= Len(resp[c].entries)
    /\ ImportOutcome(resp[c].entries[resp[c].row]) = "insert"
    /\ ~WriteLockFree
    /\ resp' = [resp EXCEPT ![c].row = @ + 1, ![c].error_count = @ + 1]
    /\ UNCHANGED <<ledger, nextId>>

\* the end of the loop: the commit at the end of `with connect()` and the
\* response
import_return(c) ==
    /\ resp[c].op = "import_expenses"
    /\ resp[c].pc \in {"reading", "inserting"}
    /\ resp[c].row > Len(resp[c].entries)
    /\ ledger' = IF HoldsWriteLock(c) THEN resp[c].view ELSE ledger
    /\ nextId' = IF HoldsWriteLock(c) THEN resp[c].seq ELSE nextId
    /\ resp' = [resp EXCEPT ![c] =
                  [op |-> "import_expenses", pc |-> "done", status |-> "ok",
                   imported_count |-> resp[c].imported_count,
                   error_count |-> resp[c].error_count]]

\* the caller takes the response
return_to_caller(c) ==
    /\ resp[c].pc = "done"
    /\ resp' = [resp EXCEPT ![c] = Idle]
    /\ UNCHANGED <<ledger, nextId>>

(***************************************************************************)
(* utils/dates: the helpers called on their own                            *)
(***************************************************************************)
month_start_end_call(month_ym) ==
    /\ resp = NoResp
    /\ resp' = [op |-> "month_start_end", month_ym |-> month_ym,
                result |-> month_start_end_str(month_ym)]
    /\ UNCHANGED <<ledger, nextId>>

\* add_months applied to a pair, then to its result, and once with the sum
\* of the two deltas
add_months_call(year, month, delta1, delta2) ==
    LET first == add_months(year, month, delta1)
    IN  /\ resp = NoResp
        /\ resp' = [op |-> "add_months", year |-> year, month |-> month,
                    delta1 |-> delta1, delta2 |-> delta2,
                    first |-> first,
                    second |-> add_months(first[1], first[2], delta2),
                    direct |-> add_months(year, month, delta1 + delta2)]
        /\ UNCHANGED <<ledger, nextId>>

(***************************************************************************)
(* Arguments of the calls                                                  *)
(***************************************************************************)
QueryDates == {20241201, 20241231, 20250101, 20250131}

\* searches with the default page
SearchFilters ==
    [start_date : {None, Some(20250101)},
     end_date : {None, Some(20250101)},
     category : {None, Some(Food)},
     min_amount : {None, Some(0), Some(5000)},
     max_amount : {None, Some(0), Some(5000)},
     note_contains : {None, Some(<<>>), Some(<<97>>)},
     tax_deductible : {None, Some(0), Some(1)}]

\* searches that are paged
PagedFilters ==
    [start_date : {None},
     end_date : {None},
     category : {None, Some(Transport)},
     min_amount : {None},
     max_amount : {None},
     note_contains : {None},
     tax_deductible : {None, Some(0)}]

Limits == (-1)..MaxPage \cup {100}

Offsets == (-1)..MaxPage

Mutate ==
    \/ \E e \in ExpenseInputs : add_expense(e)
    \/ \E id \in 1..MaxId : delete_expense(id)

NextSearch ==
    \/ Mutate
    \/ ReturnToCaller
    \/ \E f \in SearchFilters : search_expenses(f, 100, 0)
    \/ \E f \in PagedFilters, limit \in Limits, offset \in Offsets :
          search_expenses(f, limit, offset)
    \/ \E s \in QueryDates, e \in QueryDates : list_expenses(s, e)

SpecSearch == Init /\ [][NextSearch]_vars

Months == {202411, 202412, 202501}

Categories == {None, Some(Food), Some(Transport)}

Years == {2024, 2025}

Next ==
    \/ Mutate
    \/ ReturnToCaller
    \/ \E s \in QueryDates, e \in QueryDates, c \in Categories : summarize(s, e, c)
    \/ \E m1 \in Months, m2 \in Months, c \in Categories :
          compare_months(m1, m2, c)
    \/ \E s \in QueryDates, e \in QueryDates, g \in {"day", "week", "month"} :
          analyze_trends(s, e, g)
    \/ \E s \in QueryDates, e \in QueryDates : category_analytics(s, e)
    \/ \E s \in QueryDates, e \in QueryDates : get_statistics(s, e)
    \/ \E y \in Years, c \in Categories : tax_summary(y, c)

Spec == Init /\ [][Next]_vars

\* add_expense calls before and around the days the forecasts are made on
ForecastInputs ==
    { [date |-> 20241105, amount |-> 3000, category |-> Food,
       subcategory |-> <<>>, note |-> <<>>, tax_deductible |-> 0,
       currency |-> Eur, payment_method |-> <<>>],
      [date |-> 20241205, amount |-> 6001, category |-> Food,
       subcategory |-> <<>>, note |-> <<>>, tax_deductible |-> 0,
       currency |-> Eur, payment_method |-> <<>>],
      [date |-> 20250110, amount |-> 9000, category |-> Food,
       subcategory |-> <<>>, note |-> <<>>, tax_deductible |-> 0,
       currency |-> Eur, payment_method |-> <<>>],
      [date |-> 20250110, amount |-> 5000, category |-> Transport,
       subcategory |-> <<>>, note |-> <<>>, tax_deductible |-> 0,
       currency |-> Eur, payment_method |-> <<>>],
      [date |-> 20250120, amount |-> 1000, category |-> Food,
       subcategory |-> <<>>, note |-> <<>>, tax_deductible |-> 0,
       currency |-> Eur, payment_method |-> <<>>] }

\* the days the clock shows when a forecast is made
Todays == {20241215, 20250115}

MonthsAhead == {-1, 0, 1, 3}

Lookbacks == {-1, 0, 1, 2}

NextForecast ==
    \/ \E e \in ForecastInputs : add_expense(e)
    \/ \E id \in 1..MaxId : delete_expense(id)
    \/ ReturnToCaller
    \/ \E n \in MonthsAhead, k \in Lookbacks, today \in Todays :
          forecast_expenses(n, k, today)

SpecForecast == Init /\ [][NextForecast]_vars

\* add_expense calls of the record-keeping runs
CrudInputs ==
    { [date |-> 20250201, amount |-> 7000, category |-> Food,
       subcategory |-> <<>>, note |-> <<>>, tax_deductible |-> 0,
       currency |-> Eur, payment_method |-> <<>>],
      [date |-> 20250105, amount |-> 5000, category |-> Health,
       subcategory |-> <<>>, note |-> <<97>>, tax_deductible |-> 1,
       currency |-> Eur, payment_method |-> <<>>] }

NoFields ==
    [date |-> None, amount |-> None, category |-> None, subcategory |-> None,
     note |-> None, tax_deductible |-> None, currency |-> None,
     payment_method |-> None]

\* the optional arguments of edit_expense calls: none, two fields one of
\* them 0, an empty text, three fields
EditFields ==
    { NoFields,
      [NoFields EXCEPT !.amount = Some(0), !.category = Some(Transport)],
      [NoFields EXCEPT !.note = Some(<<>>)],
      [NoFields EXCEPT !.date = Some(20250301), !.tax_deductible = Some(1),
                       !.payment_method = Some(<<99>>)] }

\* the entries of imported files, as the reader delivers them: a complete
\* entry, one with amount 0, one without a category, one whose amount is
\* not a number
ImportEntries ==
    { [date |-> Some(20250201), amount |-> Some(7000), category |-> Food,
       subcategory |-> <<>>, note |-> <<>>, tax_deductible |-> 0,
       currency |-> Eur, payment_method |-> <<>>],
      [date |-> Some(20250201), amount |-> Some(0), category |-> Food,
       subcategory |-> <<>>, note |-> <<>>, tax_deductible |-> 0,
       currency |-> Eur, payment_method |-> <<>>],
      [date |-> Some(20250201), amount |-> Some(7000), category |-> <<>>,
       subcategory |-> <<>>, note |-> <<>>, tax_deductible |-> 0,
       currency |-> Eur, payment_method |-> <<>>],
      [date |-> Some(20250201), amount |-> None, category |-> Food,
       subcategory |-> <<>>, note |-> <<>>, tax_deductible |-> 0,
       currency |-> Eur, payment_method |-> <<>>] }

\* the files: one or two entries
ImportFiles ==
    { <<x>> : x \in ImportEntries }
        \cup { <<x, y>> : x \in ImportEntries, y \in ImportEntries }

NextCrud ==
    \/ \E e \in CrudInputs : add_expense(e)
    \/ \E id \in 1..MaxId, f \in EditFields : edit_expense(id, f)
    \/ \E id \in 1..MaxId : delete_expense(id)
    \/ \E entries \in ImportFiles : import_expenses(entries)
    \/ ReturnToCaller

SpecCrud == Init /\ [][NextCrud]_vars

\* add_expense calls with arbitrary texts: date and category are `str`
\* arguments, and "" is a str
StoreInputs ==
    { [date |-> 20250201, amount |-> 7000, category |-> Food,
       subcategory |-> <<>>, note |-> <<>>, tax_deductible |-> 0,
       currency |-> Eur, payment_method |-> <<>>],
      [date |-> EmptyDate, amount |-> 1000, category |-> <<>>,
       subcategory |-> <<>>, note |-> <<>>, tax_deductible |-> 0,
       currency |-> Eur, payment_method |-> <<>>],
      [date |-> 20250201, amount |-> 1000, category |-> <<>>,
       subcategory |-> <<>>, note |-> <<>>, tax_deductible |-> 0,
       currency |-> Eur, payment_method |-> <<>>] }

\* edit_expense calls with arbitrary texts
StoreEditFields ==
    { [NoFields EXCEPT !.category = Some(Transport)],
      [NoFields EXCEPT !.date = Some(EmptyDate), !.category = Some(<<>>)],
      [NoFields EXCEPT !.date = Some(EmptyDate)] }

NextStore ==
    \/ \E e \in StoreInputs : add_expense(e)
    \/ \E id \in 1..MaxId, f \in StoreEditFields : edit_expense(id, f)
    \/ \E id \in 1..MaxId : delete_expense(id)
    \/ \E entries \in ImportFiles : import_expenses(entries)
    \/ ReturnToCaller

SpecStore == Init /\ [][NextStore]_vars

\* optional date arguments: none, and the texts
\*   "2025-01-05"
\*   "2024-12-31"
\*   "2024-02-29"  (a leap day)
\*   "2023-02-29"  (not a day)
\*   "2025-02-30"  (not a day)
\*   "2025-13-01"  (not a month)
\*   "2025-1-5"  (not padded)
\*   "0000-01-01"  (year 0)
\*   "2025-01"  (no day)
\*   "20250105"  (no separators)
\*   ""
RangeTokens ==
    { None,
      Some(<<50, 48, 50, 53, 45, 48, 49, 45, 48, 53>>),
      Some(<<50, 48, 50, 52, 45, 49, 50, 45, 51, 49>>),
      Some(<<50, 48, 50, 52, 45, 48, 50, 45, 50, 57>>),
      Some(<<50, 48, 50, 51, 45, 48, 50, 45, 50, 57>>),
      Some(<<50, 48, 50, 53, 45, 48, 50, 45, 51, 48>>),
      Some(<<50, 48, 50, 53, 45, 49, 51, 45, 48, 49>>),
      Some(<<50, 48, 50, 53, 45, 49, 45, 53>>),
      Some(<<48, 48, 48, 48, 45, 48, 49, 45, 48, 49>>),
      Some(<<50, 48, 50, 53, 45, 48, 49>>),
      Some(<<50, 48, 50, 53, 48, 49, 48, 53>>),
      Some(<<>>) }

\* the date arguments of the tool calls: none, "2025-01-10", "2024-12-31"
\* and "2025-02-30" (not a day)
ToolTokens ==
    { None, Some(<<50, 48, 50, 53, 45, 48, 49, 45, 49, 48>>),
      Some(<<50, 48, 50, 52, 45, 49, 50, 45, 51, 49>>),
      Some(<<50, 48, 50, 53, 45, 48, 50, 45, 51, 48>>) }

\* the days the clock shows when a range is normalized
RangeTodays == {20250115, 20241231}

\* add_expense calls around those days
RangeInputs ==
    << [date |-> 20241230, amount |-> 12344, category |-> Food,
        subcategory |-> <<>>, note |-> <<>>, tax_deductible |-> 0,
        currency |-> Eur, payment_method |-> <<>>],
       [date |-> 20250105, amount |-> 5000, category |-> Transport,
        subcategory |-> <<>>, note |-> <<>>, tax_deductible |-> 0,
        currency |-> Eur, payment_method |-> <<>>],
       [date |-> 20250120, amount |-> 2000, category |-> Food,
        subcategory |-> <<>>, note |-> <<>>, tax_deductible |-> 0,
        currency |-> Eur, payment_method |-> <<>>],
       [date |-> 20241231, amount |-> 1000, category |-> Food,
        subcategory |-> <<>>, note |-> <<>>, tax_deductible |-> 0,
        currency |-> Eur, payment_method |-> <<>>] >>

\* the ledger after add_expense was called with each element of a
\* sequence of arguments, starting from the empty store
Stored(inputs) ==
    [i \in DOMAIN inputs |->
       [id |-> i, date |-> inputs[i].date, amount |-> inputs[i].amount,
        category |-> inputs[i].category,
        subcategory |-> inputs[i].subcategory, note |-> inputs[i].note,
        tax_deductible |-> inputs[i].tax_deductible,
        currency |-> inputs[i].currency,
        payment_method |-> inputs[i].payment_method]]

\* the ledgers the range tools are called on: the first n of those calls
RangeLedgers == { Stored(SubSeq(RangeInputs, 1, n)) : n \in 0..Len(RangeInputs) }

InitRange ==
    /\ ledger \in RangeLedgers
    /\ nextId = Len(ledger) + 1
    /\ resp = NoResp

NextRange ==
    \/ ReturnToCaller
    \/ \E s \in RangeTokens, e \in RangeTokens, today \in RangeTodays :
          normalize(s, e, today)
    \/ \E s \in ToolTokens, e \in ToolTokens, today \in RangeTodays :
          list_expenses_tool(s, e, today)
    \/ \E s \in ToolTokens, e \in ToolTokens, c \in Categories,
          today \in RangeTodays : summarize_tool(s, e, c, today)
    \/ \E s \in ToolTokens, e \in ToolTokens, g \in {"day", "month"},
          today \in RangeTodays : analyze_trends_tool(s, e, g, today)
    \/ \E s \in ToolTokens, e \in ToolTokens, today \in RangeTodays :
          category_analytics_tool(s, e, today)
    \/ \E s \in ToolTokens, e \in ToolTokens, today \in RangeTodays :
          get_statistics_tool(s, e, today)

SpecRange == InitRange /\ [][NextRange]_vars

\* the rows in the store when the concurrent edits and deletes start
RaceInputs ==
    << [date |-> 20250105, amount |-> 5000, category |-> Food,
        subcategory |-> <<>>, note |-> <<>>, tax_deductible |-> 0,
        currency |-> Eur, payment_method |-> <<>>],
       [date |-> 20250106, amount |-> 2000, category |-> Transport,
        subcategory |-> <<>>, note |-> <<>>, tax_deductible |-> 0,
        currency |-> Eur, payment_method |-> <<>>] >>

RaceIds == 1..Len(RaceInputs)

\* the optional arguments of the concurrent edits: none, and a new note
RaceFields == { NoFields, [NoFields EXCEPT !.note = Some(<<120>>)] }

InitRace ==
    /\ ledger = Stored(RaceInputs)
    /\ nextId = Len(ledger) + 1
    /\ resp = [c \in Callers |-> Idle]

NextRace ==
    \E c \in Callers :
        \/ \E id \in RaceIds, f \in RaceFields : edit_select(c, id, f)
        \/ edit_update(c)
        \/ edit_return(c)
        \/ \E id \in RaceIds : delete_select(c, id)
        \/ delete_delete(c)
        \/ delete_return(c)
        \/ database_locked(c)
        \/ return_to_caller(c)

SpecRace == InitRace /\ [][NextRace]_vars

\* rows of imported files that are complete: amounts "7.5", "7,5", " 12 "
GoodRows ==
    { [date |-> Some(20250201), category |-> Food, amount |-> Some(<<55, 46, 53>>)],
      [date |-> Some(20250202), category |-> Transport, amount |-> Some(<<55, 44, 53>>)],
      [date |-> Some(20250203), category |-> Food, amount |-> Some(<<32, 49, 50, 32>>)] }

\* rows with amount "0", "0,00", no amount, amount "", "abc" and "1.2.3",
\* without a date, without a category, without a date and with amount "abc"
BadRows ==
    { [date |-> Some(20250201), category |-> Food, amount |-> Some(<<48>>)],
      [date |-> Some(20250201), category |-> Food, amount |-> Some(<<48, 44, 48, 48>>)],
      [date |-> Some(20250201), category |-> Food, amount |-> None],
      [date |-> Some(20250201), category |-> Food, amount |-> Some(<<>>)],
      [date |-> Some(20250201), category |-> Food, amount |-> Some(<<97, 98, 99>>)],
      [date |-> Some(20250201), category |-> Food, amount |-> Some(<<49, 46, 50, 46, 51>>)],
      [date |-> None, category |-> Food, amount |-> Some(<<55, 46, 53>>)],
      [date |-> Some(20250201), category |-> <<>>, amount |-> Some(<<55, 46, 53>>)],
      [date |-> None, category |-> Food, amount |-> Some(<<97, 98, 99>>)] }

\* a file of 12 rows, all of them x except the row at position k
LongFile(x, y, k) == [i \in 1..12 |-> IF i = k THEN y ELSE x]

\* the files: one or two rows of any kind, and files of 12 rows with eleven
\* equal bad rows and a complete one
TextFiles ==
    { <<x>> : x \in GoodRows \cup BadRows }
      \cup { <<x, y>> : x \in GoodRows \cup BadRows, y \in GoodRows \cup BadRows }
      \cup { LongFile(x, y, 6) : x \in BadRows, y \in GoodRows }

NextImport ==
    \/ \E format \in {"csv", "json"}, rows \in TextFiles :
          import_expenses_file(format, rows)
    \/ ReturnToCaller

SpecImport == Init /\ [][NextImport]_vars

\* the row in the store when the concurrent reads and imports start
SnapshotInputs ==
    << [date |-> 20250105, amount |-> 5000, category |-> Transport,
        subcategory |-> <<>>, note |-> <<>>, tax_deductible |-> 0,
        currency |-> Eur, payment_method |-> <<>>] >>

\* the files imported while the analytics run: two complete entries, and a
\* complete entry after one with amount 0
SnapshotFiles ==
    { <<x, x>> : x \in { e \in ImportEntries : ImportOutcome(e) = "insert" } }
      \cup { <<y, x>> : x \in { e \in ImportEntries : ImportOutcome(e) = "insert" },
                        y \in { e \in ImportEntries :
                                  e.amount = Some(0) /\ ImportOutcome(e) = "skip" } }

\* the ranges of the concurrent analytics: the year, and a month without
\* imported rows
SnapshotRanges == { <<20250101, 20251231>>, <<20250101, 20250131>> }

InitSnapshot ==
    /\ ledger = Stored(SnapshotInputs)
    /\ nextId = Len(ledger) + 1
    /\ resp = [c \in Callers |-> Idle]

NextSnapshot ==
    \E c \in Callers :
        \/ \E r \in SnapshotRanges : analytics_total(c, r[1], r[2])
        \/ analytics_categories(c)
        \/ \E r \in SnapshotRanges : stats_aggregate(c, r[1], r[2])
        \/ stats_expensive_day(c)
        \/ stats_top_category(c)
        \/ \E entries \in SnapshotFiles : import_open(c, entries)
        \/ import_row(c)
        \/ import_row_locked(c)
        \/ import_return(c)
        \/ return_to_caller(c)

SpecSnapshot == InitSnapshot /\ [][NextSnapshot]_vars

\* add_expense calls with amounts of three decimals, two categories in one
\* month and one of them in the month before
MoneyInputs ==
    << [date |-> 20250105, amount |-> 6004, category |-> Food,
        subcategory |-> <<>>, note |-> <<>>, tax_deductible |-> 0,
        currency |-> Eur, payment_method |-> <<>>],
       [date |-> 20250106, amount |-> 5004, category |-> Transport,
        subcategory |-> <<>>, note |-> <<>>, tax_deductible |-> 0,
        currency |-> Eur, payment_method |-> <<>>],
       [date |-> 20241210, amount |-> 1003, category |-> Food,
        subcategory |-> <<>>, note |-> <<>>, tax_deductible |-> 0,
        currency |-> Eur, payment_method |-> <<>>],
       [date |-> 20241211, amount |-> 12344, category |-> Transport,
        subcategory |-> <<>>, note |-> <<>>, tax_deductible |-> 0,
        currency |-> Eur, payment_method |-> <<>>] >>

\* the ledgers after the first n of those calls
MoneyLedgers == { Stored(SubSeq(MoneyInputs, 1, n)) : n \in 0..Len(MoneyInputs) }

InitMoney ==
    /\ ledger \in MoneyLedgers
    /\ nextId = Len(ledger) + 1
    /\ resp = NoResp

NextMoney ==
    \/ ReturnToCaller
    \/ \E s \in QueryDates, e \in QueryDates, c \in Categories : summarize(s, e, c)
    \/ \E m1 \in Months, m2 \in Months, c \in Categories :
          compare_months(m1, m2, c)
    \/ \E n \in MonthsAhead, k \in Lookbacks, today \in Todays :
          forecast_expenses(n, k, today)

SpecMoney == InitMoney /\ [][NextMoney]_vars

\* the notes "Ab", "a_b", "100%", "ab"
NoteTexts ==
    { <<65, 98>>, <<97, 95, 98>>, <<49, 48, 48, 37>>, <<97, 98>> }

NoteInputs ==
    { [date |-> 20250105, amount |-> 1000, category |-> Food,
        subcategory |-> <<>>, note |-> n, tax_deductible |-> 0,
        currency |-> Eur, payment_method |-> <<>>] : n \in NoteTexts }

\* note_contains "a", "A", "b", "ab", "_", "%", "a_b"
NotePatterns ==
    { <<97>>, <<65>>, <<98>>, <<97, 98>>, <<95>>, <<37>>, <<97, 95, 98>> }

\* searches by the note alone
NoteFilters ==
    { [start_date |-> None, end_date |-> None, category |-> None,
        min_amount |-> None, max_amount |-> None, note_contains |-> Some(p),
        tax_deductible |-> None] : p \in NotePatterns }

NextNote ==
    \/ \E e \in NoteInputs : add_expense(e)
    \/ \E id \in 1..MaxId : delete_expense(id)
    \/ \E f \in NoteFilters : search_expenses(f, 100, 0)
    \/ ReturnToCaller

SpecNote == Init /\ [][NextNote]_vars

\* month tokens:
\*   "2024-02"  (leap year)
\*   "2023-02"
\*   "1900-02"  (a century that is not a leap year)
\*   "2000-02"  (a leap century)
\*   "2024-12"
\*   "2024-04"
\*   "2024-2"  (month not padded)
\*   "0-1"  (year 0)
\*   "2024-13"
\*   "2024-00"
\*   "2024"  (no month)
\*   "2024-02-01"  (a day)
\*   "2024/02"  (another separator)
\*   ""
\*   "abcd-02"
\*   "2024-"
\*   "-02"
\*   "2024-0x"
MonthTokens ==
    {
      <<50, 48, 50, 52, 45, 48, 50>>,
      <<50, 48, 50, 51, 45, 48, 50>>,
      <<49, 57, 48, 48, 45, 48, 50>>,
      <<50, 48, 48, 48, 45, 48, 50>>,
      <<50, 48, 50, 52, 45, 49, 50>>,
      <<50, 48, 50, 52, 45, 48, 52>>,
      <<50, 48, 50, 52, 45, 50>>,
      <<48, 45, 49>>,
      <<50, 48, 50, 52, 45, 49, 51>>,
      <<50, 48, 50, 52, 45, 48, 48>>,
      <<50, 48, 50, 52>>,
      <<50, 48, 50, 52, 45, 48, 50, 45, 48, 49>>,
      <<50, 48, 50, 52, 47, 48, 50>>,
      <<>>,
      <<97, 98, 99, 100, 45, 48, 50>>,
      <<50, 48, 50, 52, 45>>,
      <<45, 48, 50>>,
      <<50, 48, 50, 52, 45, 48, 120>> }

ShiftYears == {-1, 0, 2024}

ShiftDeltas == {-25, -13, -12, -1, 0, 1, 12, 13, 25}

NextDates ==
    \/ \E t \in MonthTokens : month_start_end_call(t)
    \/ \E y \in ShiftYears, m \in 1..12, d1 \in ShiftDeltas, d2 \in ShiftDeltas :
          add_months_call(y, m, d1, d2)
    \/ ReturnToCaller

SpecDates == Init /\ [][NextDates]_vars

\* (category, subcategory) pairs the classification is applied to; a
\* subcategory is a TEXT value or NULL
ClassifyCategories ==
    { Business, Education, Subscriptions, Health, GiftsDonations, Food,
      Transport, Insurance,
      <<66, 117, 115, 105, 110, 101, 115, 115>>,
      <<104, 101, 97, 108, 116, 104, 99, 97, 114, 101>> }

ClassifySubcategories ==
    { None, Some(<<>>), Some(Insurance), Some(CarInsurance),
      Some(<<73, 78, 83, 85, 82, 65, 78, 67, 69>>),
      Some(<<105, 110, 115, 117, 114, 97, 110, 99>>),
      Some(<<105, 110, 115, 117, 114, 101>>),
      Some(<<120>> \o Insurance \o <<120>>),
      Some(Health), Some(Business), Some(GiftsDonations), Some(Food) }

NextClassify ==
    \/ \E cat \in ClassifyCategories, sub \in ClassifySubcategories :
          classify(cat, sub)
    \/ ReturnToCaller

SpecClassify == Init /\ [][NextClassify]_vars

\* add_expense calls with the categories and subcategories the tax
\* classification looks at
TaxInputs ==
    { [date |-> 20250110, amount |-> 1004, category |-> Business,
       subcategory |-> CarInsurance, note |-> <<>>, tax_deductible |-> 1,
       currency |-> Eur, payment_method |-> <<>>],
      [date |-> 20250110, amount |-> 1004, category |-> Health,
       subcategory |-> Insurance, note |-> <<>>, tax_deductible |-> 1,
       currency |-> Eur, payment_method |-> <<>>],
      [date |-> 20250215, amount |-> 2000, category |-> GiftsDonations,
       subcategory |-> CarInsurance, note |-> <<>>, tax_deductible |-> 1,
       currency |-> Eur, payment_method |-> <<>>],
      [date |-> 20250215, amount |-> 3000, category |-> GiftsDonations,
       subcategory |-> <<>>, note |-> <<>>, tax_deductible |-> 1,
       currency |-> Eur, payment_method |-> <<>>],
      [date |-> 20250301, amount |-> 4000, category |-> Food,
       subcategory |-> <<>>, note |-> <<>>, tax_deductible |-> 1,
       currency |-> Eur, payment_method |-> <<>>],
      [date |-> 20250301, amount |-> 5000, category |-> Business,
       subcategory |-> <<>>, note |-> <<>>, tax_deductible |-> 0,
       currency |-> Eur, payment_method |-> <<>>],
      [date |-> 20241231, amount |-> 6000, category |-> Education,
       subcategory |-> <<>>, note |-> <<>>, tax_deductible |-> 1,
       currency |-> Eur, payment_method |-> <<>>] }

TaxFilters == {None, Some(Business), Some(GiftsDonations)}

NextTax ==
    \/ \E e \in TaxInputs : add_expense(e)
    \/ \E id \in 1..MaxId : delete_expense(id)
    \/ ReturnToCaller
    \/ \E y \in Years, c \in TaxFilters : tax_summary(y, c)

SpecTax == Init /\ [][NextTax]_vars

(***************************************************************************)
(* Properties of search_expenses and list_expenses                         *)
(***************************************************************************)
IsSearch == resp.op = "search_expenses"

IsList == resp.op = "list_expenses"

Min(a, b) == IF a <= b THEN a ELSE b

\* s occurs in x as a contiguous run of characters, ASCII letters compared
\* without regard to case (what the store's LIKE decides for a pattern
\* that has no wildcard character)
ContainsText(x, s) ==
    \E i \in 0..(Len(x) - Len(s)) :
        \A k \in 1..Len(s) : Lower(x[i + k]) = Lower(s[k])

\* the conjunction of the supplied filters, all bounds inclusive
SatisfiesFilters(r, f) ==
    /\ f.start_date # None => r.date >= Val(f.start_date)
    /\ f.end_date # None => r.date <= Val(f.end_date)
    /\ f.category # None => r.category = Val(f.category)
    /\ f.min_amount # None => r.amount >= Val(f.min_amount)
    /\ f.max_amount # None => r.amount <= Val(f.max_amount)
    /\ f.note_contains # None => ContainsText(r.note, Val(f.note_contains))
    /\ f.tax_deductible # None => r.tax_deductible = Val(f.tax_deductible)

MatchingRows(f) == { r \in Rows(ledger) : SatisfiesFilters(r, f) }

ResultRows == { resp.results[i] : i \in DOMAIN resp.results }

NoFilters ==
    [start_date |-> None, end_date |-> None, category |-> None,
     min_amount |-> None, max_amount |-> None, note_contains |-> None,
     tax_deductible |-> None]

\* C1: total_count of search_expenses is the number of ledger rows that
\* satisfy the supplied filters, whatever the limit and the offset are, and
\* it is never smaller than the number of rows returned.
C1_TotalCount ==
    IsSearch =>
        /\ resp.total_count = Cardinality(MatchingRows(resp.filters))
        /\ resp.total_count >= Len(resp.results)

\* a page that leaves rows out, of a search whose filter leaves rows out
C1_Witness ==
    /\ IsSearch
    /\ resp.filters # NoFilters
    /\ Len(resp.results) >= 1
    /\ resp.total_count > Len(resp.results)
    /\ resp.total_count < Len(ledger)

\* C2: search_expenses returns only rows that satisfy every supplied filter,
\* each of them once, and all of them when the page does not cut the list;
\* an omitted filter excludes nothing and a supplied 0 is a real bound.
C2_FilterConjunction ==
    IsSearch =>
        /\ ResultRows \subseteq MatchingRows(resp.filters)
        /\ Cardinality(ResultRows) = Len(resp.results)
        /\ (resp.offset <= 0 /\ (resp.limit < 0 \/ resp.limit >= Len(ledger)))
              => ResultRows = MatchingRows(resp.filters)

\* a search with a bound of 0, a flag of 0 and no date bound that keeps
\* some rows of two different dates and rejects others
C2_Witness ==
    /\ IsSearch
    /\ resp.filters.start_date = None /\ resp.filters.end_date = None
    /\ resp.filters.min_amount = Some(0)
    /\ resp.filters.tax_deductible = Some(0)
    /\ \E r1, r2 \in ResultRows : r1.date # r2.date
    /\ Len(resp.results) < Len(ledger)

\* C3: the rows returned by search_expenses and by list_expenses are in
\* descending date order, rows of one date in descending id order.
C3_Ordering ==
    (IsSearch \/ IsList) =>
        \A i \in 1..(Len(resp.results) - 1) :
            LET r1 == resp.results[i]
                r2 == resp.results[i + 1]
            IN  r1.date > r2.date \/ (r1.date = r2.date /\ r1.id > r2.id)

\* a result with two rows of one date next to a row of another date
C3_Witness ==
    /\ IsSearch \/ IsList
    /\ \E i, j \in 1..(Len(resp.results) - 1) :
          /\ resp.results[i].date = resp.results[i + 1].date
          /\ resp.results[j].date # resp.results[j + 1].date

\* position of a row in the ordered list of all rows
Rank(r) ==
    1 + Cardinality({ o \in Rows(ledger) :
                        o.date > r.date \/ (o.date = r.date /\ o.id > r.id) })

\* C4 as claimed: with no filters total_count is N, min(limit, N - offset)
\* rows are returned (0 when offset >= N), and they are the rows at the
\* positions offset .. offset+limit-1, for every limit and offset.
C4_PageAnyLimit ==
    (IsSearch /\ resp.filters = NoFilters) =>
        LET N == Len(ledger)
        IN  /\ resp.total_count = N
            /\ Len(resp.results) =
                  (IF resp.offset >= N THEN 0 ELSE Min(resp.limit, N - resp.offset))
            /\ \A k \in DOMAIN resp.results :
                  Rank(resp.results[k]) = resp.offset + k

\* C4 amended: the claim holds for limit >= 0 and offset >= 0; a negative
\* limit returns every row from the offset on, and a negative offset is
\* offset 0.
C4_Page ==
    (IsSearch /\ resp.filters = NoFilters) =>
        LET N == Len(ledger)
            offset == IF resp.offset < 0 THEN 0 ELSE resp.offset
            limit == IF resp.limit < 0 THEN N ELSE resp.limit
        IN  /\ resp.total_count = N
            /\ Len(resp.results) =
                  (IF offset >= N THEN 0 ELSE Min(limit, N - offset))
            /\ \A k \in DOMAIN resp.results :
                  Rank(resp.results[k]) = offset + k

\* a page from the middle of the list
C4_Witness ==
    /\ IsSearch /\ resp.filters = NoFilters
    /\ resp.offset >= 1 /\ resp.limit >= 1
    /\ Len(resp.results) = resp.limit
    /\ resp.offset + resp.limit < Len(ledger)

(***************************************************************************)
(* Properties of the analytics operations                                  *)
(***************************************************************************)
\* the ledger rows with start <= date <= end
RangeRows(start_date, end_date) ==
    { r \in Rows(ledger) : start_date <= r.date /\ r.date <= end_date }

RECURSIVE SumAmounts(_)
SumAmounts(S) ==
    IF S = {} THEN 0
    ELSE LET r == CHOOSE x \in S : TRUE
         IN  r.amount + SumAmounts(S \ {r})

MinAmount(S) == CHOOSE a \in { r.amount : r \in S } : \A r \in S : a <= r.amount

MaxAmount(S) == CHOOSE a \in { r.amount : r \in S } : \A r \in S : a >= r.amount

Abs(x) == IF x < 0 THEN -x ELSE x

\* v is n / d rounded to a nearest integer (d > 0)
IsNearest(v, n, d) == 2 * Abs(v * d - n) <= d

\* a money field (hundredths) is the amount x (thousandths) rounded to 2
\* decimals
IsRounded2(v, x) == IsNearest(v, x, 10)

RECURSIVE SumField(_, _)
SumField(s, field) ==
    IF s = <<>> THEN 0 ELSE Head(s)[field] + SumField(Tail(s), field)

\* C5: summarize returns one entry for each category that has a row in the
\* range (only the given category when one is supplied), its total_amount
\* is the sum of exactly those rows, and the entries are in ascending
\* category order.
C5_Summarize ==
    resp.op = "summarize" =>
        LET R == { r \in RangeRows(resp.start_date, resp.end_date) :
                     resp.category # None => r.category = Val(resp.category) }
            res == resp.result
        IN  /\ \A i \in DOMAIN res :
                  LET Rc == { r \in R : r.category = res[i].category }
                  IN  Rc # {} /\ res[i].total_amount = SumAmounts(Rc)
            /\ \A r \in R : \E i \in DOMAIN res : res[i].category = r.category
            /\ \A i, j \in DOMAIN res :
                  i < j => TextLess(res[i].category, res[j].category)

\* two categories, one of them with two rows, and a category filter that
\* is not supplied
C5_Witness ==
    /\ resp.op = "summarize"
    /\ resp.category = None
    /\ Len(resp.result) = 2
    /\ Cardinality(RangeRows(resp.start_date, resp.end_date)) = 3

\* a supplied category that leaves rows of the range out
C5_WitnessCategory ==
    /\ resp.op = "summarize"
    /\ resp.category # None
    /\ Len(resp.result) = 1
    /\ \E r \in RangeRows(resp.start_date, resp.end_date) :
          r.category # Val(resp.category)

C7_Percentages ==
    resp.op = "category_analytics" =>
        LET R == RangeRows(resp.start_date, resp.end_date)
            grand == SumAmounts(R)
            cats == resp.categories
        IN  IF grand > 0
            THEN /\ \A i \in DOMAIN cats :
                       IsNearest(cats[i].percentage,
                                 10000 * SumAmounts({ r \in R :
                                            r.category = cats[i].category }),
                                 grand)
                 /\ 2 * Abs(SumField(cats, "percentage") - 10000) <= Len(cats)
            ELSE \A i \in DOMAIN cats : cats[i].percentage = 0

\* three categories with a positive grand total, one share not a whole
\* number of hundredths of a percent
C7_Witness ==
    /\ resp.op = "category_analytics"
    /\ Len(resp.categories) >= 2
    /\ resp.total_spent > 0
    /\ \E i \in DOMAIN resp.categories :
          /\ resp.categories[i].percentage % 100 # 0
          /\ resp.categories[i].percentage > 0

\* rows in the range whose grand total is negative
C7_WitnessNegative ==
    /\ resp.op = "category_analytics"
    /\ Len(resp.categories) >= 2
    /\ SumAmounts(RangeRows(resp.start_date, resp.end_date)) < 0

\* the rows of a calendar month, of one category when one is supplied
MonthRows(month, category) ==
    { r \in Rows(ledger) :
        /\ YearOf(r.date) * 100 + MonthOf(r.date) = month
        /\ category # None => r.category = Val(category) }

\* C8: compare_months sums each month's rows (0 for a month without rows),
\* returns difference = total2 - total1 and percent_change =
\* difference / total1 * 100 when total1 > 0, and percent_change = 0 when
\* total1 <= 0 (every field rounded to 2 decimals).
C8_CompareMonths ==
    resp.op = "compare_months" =>
        LET t1 == SumAmounts(MonthRows(resp.month1, resp.category))
            t2 == SumAmounts(MonthRows(resp.month2, resp.category))
        IN  /\ IsRounded2(resp.total1, t1)
            /\ IsRounded2(resp.total2, t2)
            /\ IsRounded2(resp.difference, t2 - t1)
            /\ IF t1 > 0
               THEN IsNearest(resp.percent_change, 10000 * (t2 - t1), t1)
               ELSE resp.percent_change = 0

\* a positive first month and a change that is not -100 %
C8_Witness ==
    /\ resp.op = "compare_months"
    /\ resp.total1 > 0
    /\ resp.total2 # 0
    /\ resp.percent_change \notin {0, -10000}

\* a first month whose rows add up to a negative total
C8_WitnessNegative ==
    /\ resp.op = "compare_months"
    /\ resp.total1 < 0
    /\ resp.total2 > 0

\* the period key a date truncates to
TruncatedKey(group_by, date) ==
    CASE group_by = "day" -> date
      [] group_by = "week" -> YearOf(date) * 100 + WeekOfYear(date)
      [] group_by = "month" -> YearOf(date) * 100 + MonthOf(date)

\* C9: analyze_trends partitions the rows of the range by period key: each
\* emitted period has expense_count >= 1, the number of rows that truncate
\* to its key, with total, min_amount and max_amount over those rows
\* (rounded to 2 decimals); every row of the range is in exactly one
\* emitted period and the periods are in ascending key order.
C9_Trends ==
    resp.op = "analyze_trends" =>
        LET R == RangeRows(resp.start_date, resp.end_date)
            t == resp.trends
        IN  /\ \A i \in DOMAIN t :
                  LET P == { r \in R :
                               TruncatedKey(resp.group_by, r.date) = t[i].period }
                  IN  /\ t[i].expense_count >= 1
                      /\ t[i].expense_count = Cardinality(P)
                      /\ IsRounded2(t[i].total, SumAmounts(P))
                      /\ IsRounded2(t[i].min_amount, MinAmount(P))
                      /\ IsRounded2(t[i].max_amount, MaxAmount(P))
            /\ \A r \in R :
                  Cardinality({ i \in DOMAIN t :
                      t[i].period = TruncatedKey(resp.group_by, r.date) }) = 1
            /\ SumField(t, "expense_count") = Cardinality(R)
            /\ \A i, j \in DOMAIN t : i < j => t[i].period < t[j].period

\* weeks of two years, one week holding rows of two days
C9_Witness ==
    /\ resp.op = "analyze_trends"
    /\ resp.group_by = "week"
    /\ Len(resp.trends) = 2
    /\ \E i \in DOMAIN resp.trends :
          /\ resp.trends[i].expense_count = 2
          /\ resp.trends[i].min_amount < resp.trends[i].max_amount

\* C10: most_expensive_day is a date of the range with the largest summed
\* amount and top_category a category of the range with the largest summed
\* amount, each reported with that sum (rounded to 2 decimals); both are
\* null when the range has no rows.
C10_Statistics ==
    resp.op = "get_statistics" =>
        LET R == RangeRows(resp.start_date, resp.end_date)
            DaySum(d) == SumAmounts({ r \in R : r.date = d })
            CatSum(c) == SumAmounts({ r \in R : r.category = c })
            day == resp.most_expensive_day
            top == resp.top_category
        IN  IF R = {}
            THEN day.date = None /\ top.category = None
            ELSE /\ day.date # None
                 /\ \E r \in R : r.date = Val(day.date)
                 /\ \A r \in R : DaySum(Val(day.date)) >= DaySum(r.date)
                 /\ IsRounded2(day.total, DaySum(Val(day.date)))
                 /\ top.category # None
                 /\ \E r \in R : r.category = Val(top.category)
                 /\ \A r \in R : CatSum(Val(top.category)) >= CatSum(r.category)
                 /\ IsRounded2(top.total, CatSum(Val(top.category)))

\* the largest day is not the day of the largest single row, and the top
\* category is not the category of the largest single row
C10_Witness ==
    /\ resp.op = "get_statistics"
    /\ resp.most_expensive_day.date # None
    /\ LET R == RangeRows(resp.start_date, resp.end_date)
       IN  /\ Cardinality({ r.date : r \in R }) >= 2
           /\ Cardinality({ r.category : r \in R }) >= 2
           /\ resp.most_expensive_day.total > resp.max_expense

\* a range without rows in a ledger that has rows
C10_WitnessEmpty ==
    /\ resp.op = "get_statistics"
    /\ resp.start_date <= resp.end_date
    /\ ledger # <<>>
    /\ resp.most_expensive_day.date = None
    /\ resp.top_category.category = None

\* the Julian day number of a date
JulianDay(d) ==
    LET a == (14 - MonthOf(d)) \div 12
        y == YearOf(d) + 4800 - a
        m == MonthOf(d) + 12 * a - 3
    IN  DayOf(d) + ((153 * m + 2) \div 5) + 365 * y + (y \div 4)
            - (y \div 100) + (y \div 400) - 32045

\* C11: daily_average of get_statistics is total / ((end - start in days)
\* + 1), rounded to 2 decimals, when that inclusive day count is positive,
\* and 0 when it is not (end before start).
C11_DailyAverage ==
    resp.op = "get_statistics" =>
        LET days == JulianDay(resp.end_date) - JulianDay(resp.start_date) + 1
            total == SumAmounts(RangeRows(resp.start_date, resp.end_date))
        IN  IF days > 0
            THEN IsNearest(resp.daily_average, total, 10 * days)
            ELSE resp.daily_average = 0

\* a range of several days across the turn of the year with a daily
\* average that is neither 0 nor the total
C11_Witness ==
    /\ resp.op = "get_statistics"
    /\ resp.start_date < 20250101 /\ resp.end_date >= 20250101
    /\ resp.daily_average # 0
    /\ resp.daily_average # resp.total_spent

\* a range of one day with rows on that day
C11_WitnessOneDay ==
    /\ resp.op = "get_statistics"
    /\ resp.start_date = resp.end_date
    /\ resp.daily_average # 0
    /\ resp.daily_average = resp.total_spent

\* a range that ends before it starts, in a ledger that has rows
C11_WitnessReversed ==
    /\ resp.op = "get_statistics"
    /\ resp.start_date > resp.end_date
    /\ ledger # <<>>
    /\ resp.daily_average = 0

\* the operations that take a date range
RangeOps ==
    {"summarize", "analyze_trends", "category_analytics", "get_statistics"}

\* the result of get_statistics when no row is counted
EmptyStatistics ==
    /\ resp.total_expenses = 0
    /\ resp.total_spent = 0
    /\ resp.average_expense = 0
    /\ resp.min_expense = 0
    /\ resp.max_expense = 0
    /\ resp.daily_average = 0
    /\ resp.most_expensive_day = [date |-> None, total |-> 0]
    /\ resp.top_category = [category |-> None, total |-> 0]

\* C12: every aggregation operation returns a normal result on every
\* ledger and for every range: a range without rows, in particular a range
\* with start > end, gives the result of an empty ledger (empty lists,
\* zero counts and totals, null day and category), and a total of zero
\* gives percentages and a percent change of 0.
C12_Total ==
    /\ resp.op \in RangeOps =>
          LET R == RangeRows(resp.start_date, resp.end_date)
          IN  /\ resp.start_date > resp.end_date => R = {}
              /\ (resp.op = "summarize" /\ R = {}) => resp.result = <<>>
              /\ (resp.op = "analyze_trends" /\ R = {}) => resp.trends = <<>>
              /\ (resp.op = "category_analytics" /\ R = {}) =>
                     resp.total_spent = 0 /\ resp.categories = <<>>
              /\ (resp.op = "category_analytics" /\ SumAmounts(R) = 0) =>
                     /\ resp.total_spent = 0
                     /\ \A i \in DOMAIN resp.categories :
                           resp.categories[i].percentage = 0
              /\ (resp.op = "get_statistics" /\ R = {}) => EmptyStatistics
    /\ resp.op = "compare_months" =>
          /\ {resp.total1, resp.total2, resp.difference, resp.percent_change}
                \subseteq Int
          /\ SumAmounts(MonthRows(resp.month1, resp.category)) = 0 =>
                resp.total1 = 0 /\ resp.percent_change = 0
          /\ SumAmounts(MonthRows(resp.month2, resp.category)) = 0 =>
                resp.total2 = 0
    /\ resp.op = "tax_summary" =>
          /\ resp.grand_total \in Int
          /\ (\A r \in Rows(ledger) :
                 YearOf(r.date) # resp.year \/ r.tax_deductible # 1) =>
                /\ resp.grand_total = 0
                /\ resp.total_count = 0
                /\ resp.summary = <<>>

\* a range with start > end while the ledger has rows dated from the end
\* to the start
C12_Witness ==
    /\ resp.op \in {"category_analytics", "get_statistics"}
    /\ resp.start_date > resp.end_date
    /\ Cardinality(RangeRows(resp.end_date, resp.start_date)) >= 2

\* rows in the range whose amounts add up to zero
C12_WitnessZeroTotal ==
    /\ resp.op = "category_analytics"
    /\ resp.categories # <<>>
    /\ SumAmounts(RangeRows(resp.start_date, resp.end_date)) = 0

\* a year without tax-deductible rows in a ledger that has such rows
C12_WitnessTax ==
    /\ resp.op = "tax_summary"
    /\ resp.summary = <<>>
    /\ \E r \in Rows(ledger) : r.tax_deductible = 1

(***************************************************************************)
(* Properties of forecast_expenses                                         *)
(***************************************************************************)
IsForecast == resp.op = "forecast_expenses"

\* the calendar month after the month YYYYMM
NextMonth(ym) == IF ym % 100 = 12 THEN ym + 89 ELSE ym + 1

RECURSIVE MonthAfter(_, _)
MonthAfter(ym, i) == IF i = 0 THEN ym ELSE NextMonth(MonthAfter(ym, i - 1))

\* C13: with months_ahead = n >= 1 every category forecast has exactly n
\* projections, for the n calendar months that follow the current month
\* (the year rolling over after December), each with projected_amount equal
\* to the category's historical_avg_monthly; the total forecast has exactly
\* n projections for the same months, all with one value.
C13_Projections ==
    (IsForecast /\ resp.forecast_months >= 1) =>
        LET n == resp.forecast_months
            current == resp.today \div 100
            cf == resp.category_forecasts
            tp == resp.total_forecast.projections
        IN  /\ \A k \in DOMAIN cf :
                  /\ DOMAIN cf[k].projections = 1..n
                  /\ \A i \in 1..n :
                        /\ cf[k].projections[i].month = MonthAfter(current, i)
                        /\ cf[k].projections[i].projected_amount
                              = cf[k].historical_avg_monthly
            /\ DOMAIN tp = 1..n
            /\ \A i \in 1..n :
                  /\ tp[i].month = MonthAfter(current, i)
                  /\ tp[i].projected_total = tp[1].projected_total

\* three projected months that start in the next year, for a category with
\* a history
C13_Witness ==
    /\ IsForecast
    /\ resp.forecast_months = 3
    /\ resp.category_forecasts # <<>>
    /\ resp.category_forecasts[1].historical_avg_monthly > 0
    /\ resp.category_forecasts[1].projections[1].month \div 100
          > YearOf(resp.today)

\* the ledger rows dated within the history period the response reports
HistoryRows ==
    { r \in Rows(ledger) :
        resp.history_start <= r.date /\ r.date <= resp.history_end }

\* C14: a category's historical_avg_monthly is the sum of its amounts in
\* the history period divided by the number of distinct calendar months of
\* the period in which it has a row (rounded to 2 decimals); a month without
\* a row of the category is not counted, and exactly the categories with a
\* row in the period have a forecast entry.
C14_HistoricalAverage ==
    IsForecast =>
        LET cf == resp.category_forecasts
        IN  /\ \A k \in DOMAIN cf :
                  LET Rc == { r \in HistoryRows : r.category = cf[k].category }
                      active == { <<YearOf(r.date), MonthOf(r.date)>> : r \in Rc }
                  IN  /\ Rc # {}
                      /\ IsNearest(cf[k].historical_avg_monthly, SumAmounts(Rc),
                                   10 * Cardinality(active))
            /\ \A r \in HistoryRows :
                  Cardinality({ k \in DOMAIN cf : cf[k].category = r.category }) = 1

\* a category with rows in the first and the last month of the period and
\* none in the month between, next to a category with one row
C14_Witness ==
    /\ IsForecast
    /\ Len(resp.category_forecasts) = 2
    /\ \E k \in DOMAIN resp.category_forecasts :
          LET Rc == { r \in HistoryRows :
                        r.category = resp.category_forecasts[k].category }
          IN  /\ { MonthOf(r.date) : r \in Rc } = {11, 1}
              /\ resp.category_forecasts[k].historical_avg_monthly = 600

\* C15 as claimed: whenever months_ahead <= 0 or lookback_months <= 0 the
\* result of forecast_expenses has no projection, neither for a category
\* nor in the total forecast.
C15_NoProjections ==
    (IsForecast /\ (resp.forecast_months <= 0 \/ resp.based_on_months <= 0)) =>
        /\ \A k \in DOMAIN resp.category_forecasts :
              resp.category_forecasts[k].projections = <<>>
        /\ resp.total_forecast.projections = <<>>

\* the part of C15 that the code keeps: with months_ahead <= 0 there is no
\* projection, whatever lookback_months is
C15_NoProjectionsMonthsAhead ==
    (IsForecast /\ resp.forecast_months <= 0) =>
        /\ \A k \in DOMAIN resp.category_forecasts :
              resp.category_forecasts[k].projections = <<>>
        /\ resp.total_forecast.projections = <<>>

\* a forecast with lookback_months = 0 that projects a category
C15_WitnessLookbackZero ==
    /\ IsForecast
    /\ resp.based_on_months = 0
    /\ resp.category_forecasts # <<>>
    /\ resp.category_forecasts[1].projections # <<>>

\* a forecast with lookback_months < 0 whose total forecast has projections
C15_WitnessLookbackNegative ==
    /\ IsForecast
    /\ resp.based_on_months < 0
    /\ ledger # <<>>
    /\ resp.total_forecast.projections # <<>>

\* the calendar month before the month YYYYMM
PrevMonth(ym) == IF ym % 100 = 1 THEN ym - 89 ELSE ym - 1

RECURSIVE MonthBefore(_, _)
MonthBefore(ym, i) ==
    IF i = 0 THEN ym
    ELSE IF i < 0 THEN NextMonth(MonthBefore(ym, i + 1))
    ELSE PrevMonth(MonthBefore(ym, i - 1))

\* the calendar months in which a set of rows has a row
ActiveMonths(R) == { <<YearOf(r.date), MonthOf(r.date)>> : r \in R }

\* C16 as claimed: a row contributes to an average only if its date is not
\* after today and not more than lookback_months months before today, and
\* the averages are taken over at most lookback_months calendar months.
C16_WindowOfLookbackMonths ==
    IsForecast =>
        LET cutoff == MonthBefore(resp.today \div 100, resp.based_on_months) * 100
                         + DayOf(resp.today)
        IN  /\ \A r \in HistoryRows : r.date <= resp.today /\ r.date >= cutoff
            /\ \A k \in DOMAIN resp.category_forecasts :
                  Cardinality(ActiveMonths({ r \in HistoryRows :
                        r.category = resp.category_forecasts[k].category }))
                     <= resp.based_on_months

\* C16 amended: the history runs from the first day of the calendar month
\* lookback_months months before the current month to today, both
\* included; for lookback_months >= 0 that is the current month to date and
\* the lookback_months months before it, so an average is taken over at
\* most lookback_months + 1 calendar months.
C16_WindowFromFirstOfMonth ==
    IsForecast =>
        /\ resp.history_end = resp.today
        /\ resp.history_start
              = MonthBefore(resp.today \div 100, resp.based_on_months) * 100 + 1
        /\ \A k \in DOMAIN resp.category_forecasts :
              resp.based_on_months >= 0 =>
                 Cardinality(ActiveMonths({ r \in HistoryRows :
                        r.category = resp.category_forecasts[k].category }))
                     <= resp.based_on_months + 1

\* an average over lookback_months + 1 calendar months, one of its rows
\* dated more than lookback_months months before today, while the ledger
\* has a row after today and a row before the history
C16_Witness ==
    /\ IsForecast
    /\ resp.based_on_months = 1
    /\ resp.today = 20250115
    /\ \E r \in HistoryRows : r.date < 20241215
    /\ \E r \in Rows(ledger) : r.date > resp.today \/ r.date < resp.history_start
    /\ \E k \in DOMAIN resp.category_forecasts :
          Cardinality(ActiveMonths({ r \in HistoryRows :
                r.category = resp.category_forecasts[k].category })) = 2

(***************************************************************************)
(* Properties of the tax classification and of tax_summary                 *)
(***************************************************************************)
\* C17: the classification gives every (category, subcategory) pair exactly
\* one of the five buckets, the one of the first rule that matches:
\* category business, education or subscriptions -> Work-related; category
\* health -> Health; subcategory containing "insurance" in any letter case
\* -> Insurance; category gifts_donations -> Donations; otherwise Other.
\* A NULL or empty subcategory is a subcategory without "insurance".
C17_Classify ==
    resp.op = "classify" =>
        LET cat == resp.category
            sub == IF resp.subcategory = None THEN <<>> ELSE resp.subcategory[1]
            work == cat \in {Business, Education, Subscriptions}
            health == cat = Health
            insured == ContainsText(sub, Insurance)
            donation == cat = GiftsDonations
        IN  /\ resp.bucket \in { TaxBuckets[i] : i \in DOMAIN TaxBuckets }
            /\ work => resp.bucket = "Werbungskosten (Work-related)"
            /\ (~work /\ health) => resp.bucket = "Gesundheitskosten (Health)"
            /\ (~work /\ ~health /\ insured) =>
                  resp.bucket = "Versicherungen (Insurance)"
            /\ (~work /\ ~health /\ ~insured /\ donation) =>
                  resp.bucket = "Spenden (Donations)"
            /\ (~work /\ ~health /\ ~insured /\ ~donation) =>
                  resp.bucket = "Sonstige (Other)"

\* a gifts_donations row with an insurance subcategory in mixed case
C17_Witness ==
    /\ resp.op = "classify"
    /\ resp.category = GiftsDonations
    /\ resp.subcategory = Some(CarInsurance)
    /\ resp.bucket = "Versicherungen (Insurance)"

\* a business row with an insurance subcategory
C17_WitnessWork ==
    /\ resp.op = "classify"
    /\ resp.category = Business
    /\ resp.subcategory = Some(Insurance)
    /\ resp.bucket = "Werbungskosten (Work-related)"

\* a NULL subcategory
C17_WitnessNull ==
    /\ resp.op = "classify"
    /\ resp.subcategory = None
    /\ resp.bucket = "Spenden (Donations)"

\* the ids of the rows nested in the emitted buckets, bucket after bucket
RECURSIVE BucketIds(_)
BucketIds(summary) ==
    IF summary = <<>> THEN <<>>
    ELSE [i \in DOMAIN Head(summary).expenses |-> Head(summary).expenses[i].id]
            \o BucketIds(Tail(summary))

C18_WitnessFilter ==
    /\ resp.op = "tax_summary"
    /\ resp.filter_category # None
    /\ resp.total_count = 2
    /\ \E r \in Rows(ledger) :
          /\ YearOf(r.date) = resp.year /\ r.tax_deductible = 1
          /\ r.category # Val(resp.filter_category)

(***************************************************************************)
(* Properties of the record-keeping operations                             *)
(***************************************************************************)
\* the ids of the rows, in table order
IdsInOrder(t) == [i \in DOMAIN t |-> t[i].id]

\* C19: after any sequence of add_expense, edit_expense, delete_expense and
\* import_expenses calls the stored ids are distinct; an insertion assigns
\* an id greater than every id assigned before it, also when the row of
\* that id has been deleted (nextId is above every id assigned so far and
\* never goes down); edit_expense leaves every id as it is.
C19_IdMonotonic ==
    /\ [](\A i, j \in DOMAIN ledger : i < j => ledger[i].id < ledger[j].id)
    /\ [](\A id \in Ids(ledger) : id < nextId)
    /\ [][/\ nextId' >= nextId
          /\ \A id \in Ids(ledger') \ Ids(ledger) : id >= nextId
          /\ resp'.op = "edit_expense" =>
                IdsInOrder(ledger') = IdsInOrder(ledger)]_vars

\* an insertion after the row with the largest id was deleted: the freed
\* id is not given again
C19_Witness ==
    /\ resp.op = "add_expense"
    /\ resp.id >= 3
    /\ (resp.id - 1) \notin Ids(ledger)
    /\ Len(ledger) = 2

\* an import that inserts two rows after a delete
C19_WitnessImport ==
    /\ resp.op = "import_expenses"
    /\ resp.imported_count = 2
    /\ Ids(ledger) = {2, 3}

\* an edit that changed a row next to another row
C19_WitnessEdit ==
    /\ resp.op = "edit_expense"
    /\ resp.status = "ok"
    /\ Len(ledger) >= 2
    /\ Val(resp.expense).category = Transport

\* C20: edit_expense and delete_expense addressed to an id that is not in
\* the ledger return status "error" and leave the ledger as it is;
\* edit_expense on an id of the ledger with every field absent returns
\* status "error" with the message "No fields to update" and leaves the
\* ledger as it is; for a missing id the error is the not-found error also
\* when no field is supplied.
C20_ErrorResults ==
    [][/\ (resp'.op = "delete_expense" /\ resp'.id \notin Ids(ledger)) =>
             resp'.status = "error" /\ ledger' = ledger
       /\ (resp'.op = "edit_expense" /\ resp'.id \notin Ids(ledger)) =>
             /\ resp'.status = "error"
             /\ resp'.message = "Expense with id {id} not found"
             /\ ledger' = ledger
       /\ (resp'.op = "edit_expense" /\ resp'.id \in Ids(ledger)
              /\ \A c \in DOMAIN resp'.fields : resp'.fields[c] = None) =>
             /\ resp'.status = "error"
             /\ resp'.message = "No fields to update"
             /\ ledger' = ledger]_vars

\* an edit without fields addressed to an id that was deleted, while the
\* ledger has other rows
C20_Witness ==
    /\ resp.op = "edit_expense"
    /\ resp.fields = NoFields
    /\ resp.id < nextId
    /\ resp.id \notin Ids(ledger)
    /\ ledger # <<>>
    /\ resp.status = "error"

\* an edit without fields addressed to a row of the ledger
C20_WitnessNoFields ==
    /\ resp.op = "edit_expense"
    /\ resp.fields = NoFields
    /\ resp.id \in Ids(ledger)
    /\ resp.message = "No fields to update"

\* a delete addressed to an id that was never assigned
C20_WitnessDelete ==
    /\ resp.op = "delete_expense"
    /\ resp.id >= nextId
    /\ ledger # <<>>
    /\ resp.status = "error"

\* C21: an edit_expense that returns status "ok" sets every supplied field
\* of the addressed row to the supplied value (a supplied 0 or "" too) and
\* returns the row as it is after the update; the row's id and its fields
\* that were not supplied, every other row, and the number and order of the
\* rows are as before.
C21_EditFrame ==
    [][(resp'.op = "edit_expense" /\ resp'.status = "ok") =>
          /\ Len(ledger') = Len(ledger)
          /\ \E i \in DOMAIN ledger : ledger[i].id = resp'.id
          /\ \A i \in DOMAIN ledger :
                IF ledger[i].id # resp'.id THEN ledger'[i] = ledger[i]
                ELSE /\ ledger'[i].id = ledger[i].id
                     /\ \A c \in DOMAIN resp'.fields :
                           ledger'[i][c] =
                              IF resp'.fields[c] # None THEN resp'.fields[c][1]
                              ELSE ledger[i][c]
                     /\ resp'.expense = <<ledger'[i]>>]_vars

\* an edit that set the amount to 0 and the category, and nothing else, on
\* the first of two rows
C21_Witness ==
    /\ resp.op = "edit_expense"
    /\ resp.status = "ok"
    /\ resp.fields.amount = Some(0)
    /\ resp.fields.note = None
    /\ Len(ledger) = 2
    /\ ledger[1] = Val(resp.expense)
    /\ ledger[1].amount = 0
    /\ ledger[1].note # <<>>
    /\ ledger[2].category # Transport

\* an edit that set the note to the empty text
C21_WitnessEmptyNote ==
    /\ resp.op = "edit_expense"
    /\ resp.status = "ok"
    /\ resp.fields.note = Some(<<>>)
    /\ Val(resp.expense).note = <<>>
    /\ Val(resp.expense).tax_deductible = 1

\* C22 as claimed: in every ledger state that add_expense, edit_expense,
\* delete_expense and import_expenses calls lead to, every stored row has a
\* non-empty date and a non-empty category.
C22_NonEmptyDateCategory ==
    \A i \in DOMAIN ledger :
        ledger[i].date # EmptyDate /\ ledger[i].category # <<>>

\* the part of C22 that the code keeps: a row that import_expenses inserts
\* has a non-empty date and a non-empty category
C22_ImportNonEmpty ==
    [][resp'.op = "import_expenses" =>
          \A i \in (Len(ledger) + 1)..Len(ledger') :
              ledger'[i].date # EmptyDate /\ ledger'[i].category # <<>>]_vars

\* add_expense has stored a row with date "" and category ""
C22_Witness ==
    /\ resp.op = "add_expense"
    /\ \E i \in DOMAIN ledger :
          /\ ledger[i].id = resp.id
          /\ ledger[i].date = EmptyDate
          /\ ledger[i].category = <<>>

\* edit_expense has set the date and the category of a row to ""
C22_WitnessEdit ==
    /\ resp.op = "edit_expense"
    /\ resp.status = "ok"
    /\ resp.fields.category = Some(<<>>)
    /\ Val(resp.expense).category = <<>>
    /\ Val(resp.expense).date = EmptyDate
    /\ Val(resp.expense).amount = 7000

(***************************************************************************)
(* Properties of the date helpers                                          *)
(***************************************************************************)
\* the length of a month of the Gregorian calendar
MonthLength(y, m) ==
    CASE m \in {1, 3, 5, 7, 8, 10, 12} -> 31
      [] m \in {4, 6, 9, 11} -> 30
      [] m = 2 -> IF (y % 4 = 0 /\ y % 100 # 0) \/ y % 400 = 0 THEN 29 ELSE 28

\* the ways to write a number below 100: with two digits, and with one
\* digit when it is below 10
Spell2(n) ==
    { <<48 + (n \div 10), 48 + (n % 10)>> }
        \cup (IF n < 10 THEN { <<48 + n>> } ELSE {})

\* the text "YYYY-MM-DD" of a day
IsoDay(y, m, d) ==
    << 48 + (y \div 1000), 48 + ((y \div 100) % 10), 48 + ((y \div 10) % 10),
       48 + (y % 10), 45, 48 + (m \div 10), 48 + (m % 10), 45,
       48 + (d \div 10), 48 + (d % 10) >>

\* the calendar days <<y, m, d>> that a text denotes as year-month-day
\* (none or one): a year of four digits from 0001 on and a month and a day
\* that exist
DaysDenoted(t) ==
    IF Len(t) < 4 \/ \E i \in 1..4 : t[i] \notin 48..57 THEN {}
    ELSE LET y == (t[1] - 48) * 1000 + (t[2] - 48) * 100 + (t[3] - 48) * 10
                     + (t[4] - 48)
         IN  { <<y, x[1], x[2]>> :
                 x \in { md \in (1..12) \X (1..31) :
                           /\ y >= 1
                           /\ md[2] <= MonthLength(y, md[1])
                           /\ \E ms \in Spell2(md[1]), ds \in Spell2(md[2]) :
                                 t = SubSeq(t, 1, 4) \o <<45>> \o ms \o <<45>>
                                         \o ds } }

\* what the claim says of a call with the optional bounds s and e on the
\* day today: whether both resolved bounds are calendar dates, and the
\* resolved bounds as texts and as date column values
ClaimedRange(s, e, today) ==
    LET end == IF e = None
               THEN IsoDay(today \div 10000, (today \div 100) % 100, today % 100)
               ELSE Val(e)
        valid == /\ DaysDenoted(end) # {}
                 /\ s # None => DaysDenoted(Val(s)) # {}
        e3 == CHOOSE x \in DaysDenoted(end) : TRUE
        start == IF s # None THEN Val(s) ELSE IsoDay(e3[1], e3[2], 1)
        s3 == CHOOSE x \in DaysDenoted(start) : TRUE
    IN  IF ~valid THEN [valid |-> FALSE, start |-> <<>>, end |-> <<>>,
                        start_key |-> 0, end_key |-> 0]
        ELSE [valid |-> TRUE, start |-> start, end |-> end,
              start_key |-> s3[1] * 10000 + s3[2] * 100 + s3[3],
              end_key |-> e3[1] * 10000 + e3[2] * 100 + e3[3]]

\* the tools that take an optional range
RangeTools ==
    {"list_expenses", "summarize", "analyze_trends", "category_analytics",
     "get_statistics"}

\* a step of one of those tools
RangeTool(tool, s, e, today) ==
    CASE tool = "list_expenses" -> list_expenses_tool(s, e, today)
      [] tool = "summarize" ->
            \E c \in Categories : summarize_tool(s, e, c, today)
      [] tool = "analyze_trends" ->
            \E g \in {"day", "month"} : analyze_trends_tool(s, e, g, today)
      [] tool = "category_analytics" -> category_analytics_tool(s, e, today)
      [] tool = "get_statistics" -> get_statistics_tool(s, e, today)

\* a step of the service behind a tool on a given range
RangeService(tool, start_date, end_date) ==
    CASE tool = "list_expenses" -> list_expenses(start_date, end_date)
      [] tool = "summarize" ->
            \E c \in Categories : summarize(start_date, end_date, c)
      [] tool = "analyze_trends" ->
            \E g \in {"day", "month"} : analyze_trends(start_date, end_date, g)
      [] tool = "category_analytics" -> category_analytics(start_date, end_date)
      [] tool = "get_statistics" -> get_statistics(start_date, end_date)

\* C23: normalize_date_range returns a supplied bound as it is, puts the
\* current day for an absent end and the first day of the month of the
\* resolved end for an absent start, keeps start > end as it is, and raises
\* exactly when a resolved bound is not a calendar date; list_expenses and
\* the analytics tools that take a range do what their service does on the
\* normalized range (they fail, leaving the ledger alone, when it raises),
\* which is the month to date when both bounds are omitted.
C23_NormalizeRange ==
    /\ [](resp.op = "normalize_date_range" =>
             \A n \in {ClaimedRange(resp.start_date, resp.end_date, resp.today)} :
                 IF ~n.valid THEN resp.result = None
                 ELSE /\ resp.result # None
                      /\ Val(resp.result).start_date = n.start
                      /\ Val(resp.result).end_date = n.end
                      /\ resp.start_date # None =>
                            Val(resp.result).start_date = Val(resp.start_date)
                      /\ resp.end_date # None =>
                            Val(resp.result).end_date = Val(resp.end_date))
    /\ [][\A tool \in RangeTools, today \in RangeTodays,
              s \in ToolTokens, e \in ToolTokens :
             (/\ tool = (IF resp'.op = "raise" THEN resp'.tool ELSE resp'.op)
              /\ RangeTool(tool, s, e, today)) =>
                \A n \in {ClaimedRange(s, e, today)} :
                   IF n.valid
                   THEN /\ RangeService(tool, n.start_key, n.end_key)
                        /\ (s = None /\ e = None) =>
                              /\ resp'.start_date = (today \div 100) * 100 + 1
                              /\ resp'.end_date = today
                   ELSE resp'.op = "raise" /\ ledger' = ledger]_vars

\* an absent start next to an end in another month than the current one
C23_Witness ==
    /\ resp.op = "normalize_date_range"
    /\ resp.start_date = None
    /\ resp.end_date = Some(<<50, 48, 50, 52, 45, 49, 50, 45, 51, 49>>)
    /\ resp.today = 20250115
    /\ resp.result
          = Some([start_date |-> <<50, 48, 50, 52, 45, 49, 50, 45, 48, 49>>,
                  end_date |-> <<50, 48, 50, 52, 45, 49, 50, 45, 51, 49>>])

\* a start after the end: both are returned as they are
C23_WitnessReversed ==
    /\ resp.op = "normalize_date_range"
    /\ resp.start_date = Some(<<50, 48, 50, 53, 45, 48, 49, 45, 48, 53>>)
    /\ resp.end_date = Some(<<50, 48, 50, 52, 45, 49, 50, 45, 51, 49>>)
    /\ resp.result # None
    /\ Val(resp.result).start_date = Val(resp.start_date)
    /\ Val(resp.result).end_date = Val(resp.end_date)

\* a start that is not a day of the calendar, with a good end
C23_WitnessInvalid ==
    /\ resp.op = "normalize_date_range"
    /\ resp.start_date = Some(<<50, 48, 50, 51, 45, 48, 50, 45, 50, 57>>)
    /\ resp.end_date = Some(<<50, 48, 50, 52, 45, 48, 50, 45, 50, 57>>)
    /\ resp.result = None

\* list_expenses with both bounds omitted on 2025-01-15: the one row of
\* January up to that day, of a ledger with rows in December and one later
\* in January
C23_WitnessMonthToDate ==
    /\ resp.op = "list_expenses"
    /\ resp.start_date = 20250101
    /\ resp.end_date = 20250115
    /\ Len(resp.results) = 1
    /\ Len(ledger) = 4

\* a tool call that failed on a bound that is not a day
C23_WitnessToolRaise ==
    /\ resp.op = "raise"
    /\ resp.tool = "get_statistics"
    /\ ledger # <<>>

\* the number a string of digits stands for, read from the left
RECURSIVE LeftValue(_, _)
LeftValue(s, acc) ==
    IF s = <<>> THEN acc ELSE LeftValue(Tail(s), 10 * acc + (Head(s) - 48))

\* the <<year, month>> pairs a token denotes (none or one): digits, one
\* "-", digits, the second number a month of the year
MonthsDenoted(t) ==
    { <<LeftValue(SubSeq(t, 1, k - 1), 0), LeftValue(SubSeq(t, k + 1, Len(t)), 0)>> :
        k \in { j \in 2..(Len(t) - 1) :
                  /\ t[j] = 45
                  /\ \A i \in DOMAIN t : i # j => t[i] \in 48..57
                  /\ LeftValue(SubSeq(t, j + 1, Len(t)), 0) \in 1..12 } }

\* C24: month_start_end of a token that is a year and a month 1..12
\* separated by "-" returns the first day of that month and its last day,
\* the day 31, 30 or 28, and 29 for February exactly in the years divisible
\* by 4 and not by 100, or divisible by 400; on every other token the call
\* fails.
C24_MonthStartEnd ==
    resp.op = "month_start_end" =>
        IF MonthsDenoted(resp.month_ym) = {} THEN resp.result = None
        ELSE \A ym \in MonthsDenoted(resp.month_ym) :
                resp.result
                   = Some(<<IsoDay(ym[1], ym[2], 1),
                            IsoDay(ym[1], ym[2], MonthLength(ym[1], ym[2]))>>)

\* February of a year divisible by 100 and not by 400
C24_Witness ==
    /\ resp.op = "month_start_end"
    /\ resp.month_ym = <<49, 57, 48, 48, 45, 48, 50>>
    /\ resp.result = Some(<<<<49, 57, 48, 48, 45, 48, 50, 45, 48, 49>>,
                            <<49, 57, 48, 48, 45, 48, 50, 45, 50, 56>>>>)

\* February of a leap year
C24_WitnessLeap ==
    /\ resp.op = "month_start_end"
    /\ resp.month_ym = <<50, 48, 50, 52, 45, 48, 50>>
    /\ resp.result = Some(<<<<50, 48, 50, 52, 45, 48, 50, 45, 48, 49>>,
                            <<50, 48, 50, 52, 45, 48, 50, 45, 50, 57>>>>)

\* a month number that is not a month
C24_WitnessFail ==
    /\ resp.op = "month_start_end"
    /\ resp.month_ym = <<50, 48, 50, 52, 45, 49, 51>>
    /\ resp.result = None

\* C25: add_months(year, month, delta) returns a month 1..12 and a year with
\* 12 * year' + (month' - 1) = 12 * year + (month - 1) + delta, for
\* positive, zero and negative delta; a shift by d1 followed by a shift by
\* d2 is the shift by d1 + d2, and a shift followed by the opposite shift
\* gives the pair back.
C25_AddMonths ==
    resp.op = "add_months" =>
        /\ resp.first[2] \in 1..12
        /\ 12 * resp.first[1] + (resp.first[2] - 1)
              = 12 * resp.year + (resp.month - 1) + resp.delta1
        /\ resp.second = resp.direct
        /\ resp.delta2 = -resp.delta1 =>
              resp.second = <<resp.year, resp.month>>

\* a shift back across more than one turn of the year and across year 0,
\* followed by the opposite shift
C25_Witness ==
    /\ resp.op = "add_months"
    /\ resp.year = 0
    /\ resp.delta1 = -13
    /\ resp.delta2 = 13
    /\ resp.first[1] = -2
    /\ resp.second = <<0, resp.month>>

\* a shift forward from December into January
C25_WitnessForward ==
    /\ resp.op = "add_months"
    /\ resp.year = 2024 /\ resp.month = 12
    /\ resp.delta1 = 1
    /\ resp.first = <<2025, 1>>

\* x contains s as a run of the same characters, letter case included
ContainsExact(x, s) ==
    \E i \in 0..(Len(x) - Len(s)) : SubSeq(x, i + 1, i + Len(s)) = s

\* C26: a search by note_contains = s alone returns exactly the rows whose
\* note contains s as a contiguous run of characters with the same letter
\* case; no character of s stands for other characters.
C26_NoteCaseSensitive ==
    (/\ resp.op = "search_expenses"
     /\ resp.filters \in NoteFilters
     /\ resp.limit = 100 /\ resp.offset = 0)
        => ResultRows
             = { r \in Rows(ledger) :
                   ContainsExact(r.note, Val(resp.filters.note_contains)) }

\* the search for "a" returns the row whose note is "Ab" with the row whose
\* note is "ab", and the search for "A" returns both as well
C26_Witness ==
    /\ resp.op = "search_expenses"
    /\ resp.filters \in NoteFilters
    /\ resp.filters.note_contains \in { Some(<<97>>), Some(<<65>>) }
    /\ { r.note : r \in ResultRows } = { <<65, 98>>, <<97, 98>> }

\* the search for "_" returns a row whose note has no "_"
C26_WitnessWildcard ==
    /\ resp.op = "search_expenses"
    /\ resp.filters \in NoteFilters
    /\ resp.filters.note_contains = Some(<<95>>)
    /\ \E r \in ResultRows : r.note = <<49, 48, 48, 37>>

\* the filter agrees with exact containment where the pattern has neither
\* a letter in another case in the notes nor a wildcard character
C26_WitnessAgree ==
    /\ resp.op = "search_expenses"
    /\ resp.filters \in NoteFilters
    /\ resp.filters.note_contains = Some(<<98>>)
    /\ Len(ledger) = 3
    /\ ResultRows = { r \in Rows(ledger) : ContainsExact(r.note, <<98>>) }
    /\ ResultRows # {} /\ ResultRows # Rows(ledger)

(***************************************************************************)
(* Rounding of the money fields                                            *)
(***************************************************************************)
\* the rows of a month, of one category when a category is given
RowsOfMonth(month, category) ==
    { r \in Rows(ledger) :
        /\ MonthKey(r.date) = month
        /\ (category # None /\ Val(category) # <<>>) => r.category = Val(category) }

\* the months in which a category has history rows
HistoryMonths(cat) == { MonthKey(r.date) : r \in { x \in HistoryRows : x.category = cat } }

\* 12 times the sum over the categories of the unrounded monthly average of
\* the category (thousandths); 12 is a multiple of every number of months a
\* history of the forecasts has
RECURSIVE ScaledAverages(_)
ScaledAverages(cats) ==
    IF cats = {} THEN 0
    ELSE LET c == CHOOSE x \in cats : TRUE
         IN  SumAmounts({ r \in HistoryRows : r.category = c })
                 * (12 \div Cardinality(HistoryMonths(c)))
               + ScaledAverages(cats \ {c})

\* the part of C27 about compare_months: each money field is the unrounded
\* value rounded once
C27_CompareRoundedOnce ==
    resp.op = "compare_months" =>
        LET t1 == SumAmounts(RowsOfMonth(resp.month1, resp.category))
            t2 == SumAmounts(RowsOfMonth(resp.month2, resp.category))
        IN  /\ IsNearest(resp.total1, t1, 10)
            /\ IsNearest(resp.total2, t2, 10)
            /\ IsNearest(resp.difference, t2 - t1, 10)

\* the part of C27 about the category entries of a forecast
C27_ForecastCategoriesRoundedOnce ==
    resp.op = "forecast_expenses" =>
        \A k \in DOMAIN resp.category_forecasts :
            LET cf == resp.category_forecasts[k]
            IN  /\ IsNearest(cf.historical_avg_monthly,
                             SumAmounts({ r \in HistoryRows : r.category = cf.category }),
                             10 * Cardinality(HistoryMonths(cf.category)))
                /\ \A i \in DOMAIN cf.projections :
                      cf.projections[i].projected_amount = cf.historical_avg_monthly

\* the part of C27 about summarize: total_amount (thousandths) has no third
\* decimal
C27_SummarizeRounded ==
    resp.op = "summarize" =>
        \A i \in DOMAIN resp.result : resp.result[i].total_amount % 10 = 0

\* the part of C27 about the total of a forecast: the sum of the unrounded
\* category averages, rounded once
C27_ForecastTotalRoundedOnce ==
    resp.op = "forecast_expenses" =>
        LET cats == { r.category : r \in HistoryRows }
        IN  /\ IsNearest(resp.total_forecast.monthly_average,
                         ScaledAverages(cats), 10 * 12)
            /\ \A i \in DOMAIN resp.total_forecast.projections :
                  resp.total_forecast.projections[i].projected_total
                     = resp.total_forecast.monthly_average

\* C27: every money field of an analytics response has 2 decimals and is
\* the unrounded accumulated value rounded once, never a sum of values that
\* were rounded before: the total_amount of summarize, the totals and the
\* difference of compare_months, the averages and projections of a forecast.
C27_RoundedOnceAtField ==
    /\ C27_SummarizeRounded
    /\ C27_CompareRoundedOnce
    /\ C27_ForecastCategoriesRoundedOnce
    /\ C27_ForecastTotalRoundedOnce

\* a forecast over one month with 6.004 in one category and 5.004 in the
\* other: the averages are 6.00 and 5.00, the total is their sum 11.00, and
\* the sum of the unrounded averages, 11.008, rounds to 11.01
C27_Witness ==
    /\ resp.op = "forecast_expenses"
    /\ Len(resp.category_forecasts) = 2
    /\ { resp.category_forecasts[k].historical_avg_monthly :
            k \in DOMAIN resp.category_forecasts } = {600, 500}
    /\ resp.total_forecast.monthly_average = 1100
    /\ ScaledAverages({ r.category : r \in HistoryRows }) = 11008 * 12

\* summarize returns a total with a third decimal
C27_WitnessSummarize ==
    /\ resp.op = "summarize"
    /\ \E i \in DOMAIN resp.result : resp.result[i].total_amount = 12344

\* a difference of compare_months that is rounded once: 6.004 - 1.003 is
\* 5.00, and the difference of the rounded totals as well
C27_WitnessCompare ==
    /\ resp.op = "compare_months"
    /\ resp.total1 = 100 /\ resp.total2 = 600
    /\ resp.difference = 500

(***************************************************************************)
(* Properties of calls that run at the same time                           *)
(***************************************************************************)
Succeeded(c, op) ==
    resp[c].op = op /\ resp[c].pc = "done" /\ resp[c].status = "ok"

\* C28: under every interleaving of edit_expense and delete_expense calls a
\* call answers status "ok" only if the row was there when its own UPDATE
\* or DELETE ran (the statement changed a row); an edit never answers "ok"
\* with a null expense; two deletes of one id do not both answer "ok".
C28_ExistenceAtWrite ==
    /\ \A c \in Callers :
          (Succeeded(c, "edit_expense") \/ Succeeded(c, "delete_expense"))
              => resp[c].rowcount = 1
    /\ \A c \in Callers :
          Succeeded(c, "edit_expense") => resp[c].expense # None
    /\ \A c, d \in Callers :
          (/\ c # d
           /\ Succeeded(c, "delete_expense") /\ Succeeded(d, "delete_expense"))
              => resp[c].id # resp[d].id

\* an edit that found its row, lost it to a delete before its UPDATE, and
\* answers "ok" with a null expense, next to the delete's "ok"
C28_Witness ==
    /\ Succeeded("a", "edit_expense")
    /\ resp["a"].expense = None /\ resp["a"].rowcount = 0
    /\ Succeeded("b", "delete_expense")
    /\ resp["b"].id = resp["a"].id

\* two deletes of one id that both answer "ok"
C28_WitnessTwoDeletes ==
    /\ Succeeded("a", "delete_expense") /\ Succeeded("b", "delete_expense")
    /\ resp["a"].id = resp["b"].id
    /\ resp["a"].rowcount + resp["b"].rowcount = 1

\* an edit and a delete of different rows at the same time, both with their
\* row in place
C28_WitnessApart ==
    /\ Succeeded("a", "edit_expense") /\ resp["a"].expense # None
    /\ Succeeded("b", "delete_expense") /\ resp["b"].rowcount = 1
    /\ resp["a"].id # resp["b"].id

\* the committed rows in a range
CommittedIn(start_date, end_date) ==
    { r \in Rows(ledger) : r.date >= start_date /\ r.date <= end_date }

\* the sum of the totals of the categories a response lists
RECURSIVE SumTotals(_)
SumTotals(categories) ==
    IF categories = <<>> THEN 0
    ELSE Head(categories).total + SumTotals(Tail(categories))

\* the statement caller c runs in this step read the table committed at
\* this step
ReadsCommitted(c) ==
    LET before == resp[c]
        after == resp'[c]
        rows == CommittedIn(after.start_date, after.end_date)
        largest(col) == { k \in { r[col] : r \in rows } :
                            \A j \in { r[col] : r \in rows } :
                               SumAmounts({ r \in rows : r[col] = k })
                                 >= SumAmounts({ r \in rows : r[col] = j }) }
    IN  /\ (before = Idle /\ after.op = "category_analytics")
              => after.total_spent = SumAmounts(rows)
        /\ (before.pc = "total" /\ after.pc = "done")
              => /\ after.total_spent = Round2(before.total_spent)
                 /\ { after.categories[i].category : i \in DOMAIN after.categories }
                       = { r.category : r \in rows }
                 /\ \A i \in DOMAIN after.categories :
                       /\ after.categories[i].total
                             = Round2(SumAmounts({ r \in rows :
                                   r.category = after.categories[i].category }))
                       /\ after.categories[i].count
                             = Cardinality({ r \in rows :
                                   r.category = after.categories[i].category })
        /\ (before = Idle /\ after.op = "get_statistics")
              => /\ after.stats.count = Cardinality(rows)
                 /\ OrZero(after.stats.total) = SumAmounts(rows)
        /\ (before.pc = "stats" /\ after.pc = "day")
              => IF rows = {} THEN after.expensive_day = None
                 ELSE /\ Val(after.expensive_day).key \in largest("date")
                      /\ Val(after.expensive_day).total
                            = SumAmounts({ r \in rows :
                                  r.date = Val(after.expensive_day).key })
        /\ (before.pc = "day" /\ after.pc = "done")
              => /\ after.total_expenses = before.stats.count
                 /\ after.total_spent = Round2(OrZero(before.stats.total))
                 /\ IF rows = {} THEN after.top_category.category = None
                    ELSE /\ Val(after.top_category.category) \in largest("category")
                         /\ after.top_category.total
                               = Round2(SumAmounts({ r \in rows :
                                     r.category = Val(after.top_category.category) }))

\* the committed table changes only when an import returns, and then by all
\* the rows the import inserted
CommitsWhole ==
    ledger' # ledger =>
        \E c \in Callers :
            /\ resp[c].op = "import_expenses" /\ resp'[c].pc = "done"
            /\ Len(ledger') = Len(ledger) + resp'[c].imported_count
            /\ SubSeq(ledger', 1, Len(ledger)) = ledger

\* C29: every query of category_analytics and get_statistics reads a
\* committed table, the one committed when the query runs: the rows of an
\* import that is still running are in none of them, and they appear all
\* together when the import has returned.  The queries of one call may read
\* different committed tables (C29_Witness).
C29_QueriesReadCommitted ==
    [][CommitsWhole /\ \A c \in Callers : ReadsCommitted(c)]_vars

\* a category_analytics response whose total_spent is from the table before
\* an import and whose categories are from the table after it
C29_Witness ==
    \E c \in Callers :
        /\ resp[c].op = "category_analytics" /\ resp[c].pc = "done"
        /\ resp[c].total_spent = 500
        /\ SumTotals(resp[c].categories) = 500 + 1400
        /\ Len(ledger) = 3

\* a get_statistics response that counts one expense and names a top
\* category with a larger total than total_spent
C29_WitnessStatistics ==
    \E c \in Callers :
        /\ resp[c].op = "get_statistics" /\ resp[c].pc = "done"
        /\ resp[c].total_expenses = 1
        /\ resp[c].top_category.total > resp[c].total_spent

\* a query that runs while an import has inserted rows and not returned:
\* its total has none of them
C29_WitnessRunningImport ==
    \E c, d \in Callers :
        /\ resp[d].op = "import_expenses" /\ resp[d].pc = "inserting"
        /\ Len(resp[d].view) = 3
        /\ resp[c].op = "category_analytics" /\ resp[c].pc = "total"
        /\ resp[c].start_date = 20250101 /\ resp[c].end_date = 20251231
        /\ resp[c].total_spent = 5000
        /\ Len(ledger) = 1

(***************************************************************************)
(* Properties of import_expenses                                           *)
(***************************************************************************)
\* the amount texts of the files that are not numbers: "abc" and "1.2.3"
Unparsable == { Some(<<97, 98, 99>>), Some(<<49, 46, 50, 46, 51>>) }

\* what the other amount texts of the files mean (thousandths): "7.5",
\* "7,5", " 12 ", and 0 for "0", "0,00", "" and a missing amount
AmountMeaning(a) ==
    CASE a = Some(<<55, 46, 53>>) -> 7500
      [] a = Some(<<55, 44, 53>>) -> 7500
      [] a = Some(<<32, 49, 50, 32>>) -> 12000
      [] a = Some(<<48>>) -> 0
      [] a = Some(<<48, 44, 48, 48>>) -> 0
      [] a = Some(<<>>) -> 0
      [] a = None -> 0

\* a bad row: empty date or category, amount 0, or an unparsable amount
BadRow(x) ==
    \/ x.date = None
    \/ x.category = <<>>
    \/ x.amount \in Unparsable
    \/ AmountMeaning(x.amount) = 0

\* C30: import_expenses skips every bad row (empty date or category, amount
\* 0, unparsable amount), counts it as one error and goes on; the other rows
\* are inserted in the order of the file; imported_count is the number of
\* rows added to the ledger, imported_count + error_count the number of
\* rows of the file, and at most 10 error messages are returned.
C30_ImportSoftErrors ==
    [][resp'.op = "import_expenses" =>
         LET rows == resp'.rows
             kept == SelectSeq(rows, LAMBDA x : ~BadRow(x))
             bad == { i \in DOMAIN rows : BadRow(rows[i]) }
         IN  /\ resp'.status = "ok"
             /\ Len(ledger') = Len(ledger) + Len(kept)
             /\ SubSeq(ledger', 1, Len(ledger)) = ledger
             /\ \A k \in DOMAIN kept :
                   LET r == ledger'[Len(ledger) + k]
                   IN  /\ r.date = Val(kept[k].date)
                       /\ r.category = kept[k].category
                       /\ r.amount = AmountMeaning(kept[k].amount)
                       /\ r.id = nextId + k - 1
             /\ resp'.imported_count = Len(ledger') - Len(ledger)
             /\ resp'.error_count = Cardinality(bad)
             /\ resp'.imported_count + resp'.error_count = Len(rows)
             /\ Len(resp'.errors) <= 10
             /\ Len(resp'.errors)
                   = (IF resp'.error_count < 10 THEN resp'.error_count ELSE 10)
             /\ \A k \in DOMAIN resp'.errors :
                   /\ resp'.errors[k].row \in bad
                   /\ \A j \in 1..(k - 1) :
                         resp'.errors[j].row < resp'.errors[k].row]_vars

\* a file of 12 rows with eleven bad ones: the sixth row is inserted, eleven
\* errors are counted and ten messages returned
C30_Witness ==
    /\ resp.op = "import_expenses"
    /\ Len(resp.rows) = 12
    /\ resp.imported_count = 1
    /\ resp.error_count = 11
    /\ Len(resp.errors) = 10
    /\ resp.errors[6].row = 7
    /\ Len(ledger) >= 1

\* an unparsable amount before a complete row with a decimal comma
C30_WitnessUnparsable ==
    /\ resp.op = "import_expenses"
    /\ Len(resp.rows) = 2
    /\ resp.rows[1].amount = Some(<<97, 98, 99>>)
    /\ resp.rows[2].amount = Some(<<55, 44, 53>>)
    /\ resp.imported_count = 1 /\ resp.error_count = 1
    /\ resp.errors[1].message = "ValueError"
    /\ ledger[Len(ledger)].amount = 7500

\* a file with bad rows only
C30_WitnessNothingImported ==
    /\ resp.op = "import_expenses"
    /\ resp.imported_count = 0
    /\ resp.error_count = 2
    /\ { resp.errors[k].message : k \in DOMAIN resp.errors }
          = {MissingFields, AmountZero}

====
